---------------------------- MODULE Spec2Model ----------------------------
(***************************************************************************)
(* Model of the email QA server (src/backend/server.js).                   *)
(*                                                                         *)
(* FetchSpec  : getEmailContent = withRetry(_fetchEmailContent): the       *)
(*              redirect loop with cookie forwarding, content extraction   *)
(*              and the retry wrapper with exponential backoff.            *)
(* ReportSpec : compareTextDetailed, compareLinks, checkImageAltTags, the  *)
(*              auxiliary checks and formatResultJSON on bounded inputs.   *)
(* QaSpec     : the /qa handler from validation to the finally block,      *)
(*              with the fetch and the report steps in between.            *)
(* NormalizeSpec, ScoreSpec : normalize and getSimilarityScore applied to  *)
(*              bounded texts.                                             *)
(***************************************************************************)
EXTENDS Integers, Sequences, FiniteSets, TLC

VARIABLES
    \* ---- getEmailContent / withRetry / _fetchEmailContent ----
    url,          \* argument of getEmailContent
    pc,           \* "loop" | "extract" | "caught" | "sleep" | "returned" | "thrown" | "idle"
    attempt,      \* withRetry: attempt (1-based)
    i,            \* _fetchEmailContent: loop variable of the redirect loop
    currentUrl,   \* _fetchEmailContent: currentUrl
    cookies,      \* _fetchEmailContent: cookies (array of name=value pairs)
    response,     \* _fetchEmailContent: response (last response obtained)
    lastError,    \* withRetry: lastError (the error caught from fn)
    delays,       \* delays handed to setTimeout so far, in order
    result,       \* value returned by getEmailContent
    \* ---- history (observation only, never read by the program) ----
    hops,         \* number of axios.get calls issued in the current attempt
    sent,         \* the last request issued: its url and Cookie header
    received,     \* raw Set-Cookie values received in the current attempt
    causes,       \* per finished attempt: the error raised inside fn, or NoError
    \* ---- the /qa handler and its report pipeline ----
    rpc,          \* position in the handler: "validate" | "extractDoc" | "fetch" |
                  \* "input" | "text" | "links" | "images" | "responsive" |
                  \* "grammar" | "reported" | "catch" | "finally" | "done" | "idle"
    doc,          \* what extractDoc returned: docText and docLinks
    page,         \* what getEmailContent returned: text, paragraphs, links, images
    textComparison,
    linkResult,
    imageAltCheck,
    responsive,   \* result of checkResponsive
    grammarCheck, \* grammarCheck of the handler
    report,       \* result of formatResultJSON
    req,          \* the request: whether req.file and req.body.emailUrl are given
    onDisk,       \* whether the uploaded temporary file exists
    res,          \* the response sent: status and body
    err,          \* the error caught by the handler's catch
    fetchAttempts,\* attempts getEmailContent made (observation only)
    warned,       \* console.warn of the finally block was called
    \* ---- applications of normalize and getSimilarityScore ----
    tpc,          \* "text" | "normalized" | "pair" | "scored" | "idle"
    argA,         \* the texts handed to normalize and getSimilarityScore
    argB,
    out,          \* the values computed
    \* ---- getEmailContent calls in flight at the same time ----
    jobs          \* per call: its position, attempt, URL, cookie jar, last request

fetchVars == <<url, pc, attempt, i, currentUrl, cookies, response, lastError,
               delays, result, hops, sent, received, causes>>
reportVars == <<rpc, doc, page, textComparison, linkResult, imageAltCheck,
                responsive, grammarCheck, report>>
qaVars == <<req, onDisk, res, err, fetchAttempts, warned>>
textVars == <<tpc, argA, argB, out>>
concVars == <<jobs>>
vars == <<fetchVars, reportVars, qaVars, textVars, concVars>>

-----------------------------------------------------------------------------
(* Program constants *)

\* withRetry options passed by getEmailContent
Retries == 3
BaseDelay == 2000
\* _fetchEmailContent
MAX_REDIRECTS == 10

(* Bounds of the model *)

\* Set-Cookie values the servers send within one attempt
MaxCookies == 3
\* redirects the servers of ConcSpec answer with within one attempt
MaxConcHops == 2
\* paragraph elements of a page in DedupSpec
MaxParagraphs == 3

-----------------------------------------------------------------------------
(* Values *)

None == [k |-> "none"]

Abs(o, p) == [k |-> "abs", o |-> o, p |-> p]
Rel(p) == [k |-> "rel", p |-> p]
\* a redirect target that new URL(target, base) rejects
Bad == [k |-> "bad"]

StartUrl == Abs("https://e.com", "/m")
XY == Abs("https://x", "/y")
RelR == Rel("/r")

-----------------------------------------------------------------------------
(* Errors: code is error.code ("" when undefined), status is                *)
(* error.response.status (0 when error.response is undefined), msg is       *)
(* error.message as its sequence of words.                                  *)

Err(code, status, msg) == [code |-> code, status |-> status, msg |-> msg]
NoError == Err("", 0, <<>>)

\* String.prototype.includes on a message: needle occurs as a contiguous run
Includes(msg, needle) ==
    \E s \in 0..(Len(msg) - Len(needle)) :
        \A j \in 1..Len(needle) : msg[s + j] = needle[j]

\* failures of axios.get that carry no response
ConnReset == Err("ECONNRESET", 0, <<"read", "ECONNRESET">>)
HangUp == Err("ECONNRESET", 0, <<"socket", "hang", "up">>)
AxiosTimeout == Err("ECONNABORTED", 0, <<"timeout", "of", "45000ms", "exceeded">>)
ConnTimeout == Err("ETIMEDOUT", 0, <<"connect", "ETIMEDOUT">>)
DnsNotFound == Err("ENOTFOUND", 0, <<"getaddrinfo", "ENOTFOUND">>)
DnsAgain == Err("EAI_AGAIN", 0, <<"getaddrinfo", "EAI_AGAIN">>)
InvalidUrl == Err("ERR_INVALID_URL", 0, <<"Invalid", "URL">>)
\* validateStatus (s < 400) rejects the response: the error carries it
HttpError(st) ==
    Err(IF st >= 500 THEN "ERR_BAD_RESPONSE" ELSE "ERR_BAD_REQUEST", st,
        <<"Request", "failed", "with", "status", "code", ToString(st)>>)
\* cheerio.load on data that is no markup
ParseError == Err("", 0, <<"parse", "error">>)

NetworkErrors == {ConnReset, HangUp, AxiosTimeout, ConnTimeout, DnsNotFound, DnsAgain}
ErrorStatuses == {404, 503}

\* the classes of failure the retry policy names
IsConnReset(e) == e.code = "ECONNRESET"
IsDnsFailure(e) == e.code \in {"ENOTFOUND", "EAI_AGAIN"}
IsTimeout(e) == e.code \in {"ECONNABORTED", "ETIMEDOUT"}
Is5xx(e) == e.status >= 500
Is4xx(e) == e.status >= 400 /\ e.status < 500
IsParseError(e) == e = ParseError

\* _fetchEmailContent, catch: throw new Error(`Failed to fetch email content: ${error.message}`)
WrapFetchError(e) ==
    Err("", 0, <<"Failed", "to", "fetch", "email", "content:">> \o e.msg)

\* withRetry: isRetryable
IsRetryable(error) ==
    \/ error.code = "ECONNRESET"
    \/ error.code = "ECONNABORTED"
    \/ error.code = "ETIMEDOUT"
    \/ error.code = "ENOTFOUND"
    \/ error.code = "EAI_AGAIN"
    \/ Includes(error.msg, <<"timeout">>)
    \/ Includes(error.msg, <<"socket", "hang", "up">>)
    \/ (error.status # 0 /\ error.status >= 500)

\* faulty variant: && in place of ||
GivesUpOnlyWhenBoth(error, att) == ~IsRetryable(error) /\ att = Retries

\* faulty variant: the attempt count is not consulted
GivesUpIgnoringAttempts(error, att) == ~IsRetryable(error)

\* withRetry: if (!isRetryable || attempt === retries) throw error
GivesUp(error, att) == ~IsRetryable(error) \/ att = Retries

\* faulty variant: no doubling
DelayConstant(att) == BaseDelay

\* withRetry: delay = baseDelay * Math.pow(2, attempt - 1)
Delay(att) == BaseDelay * (2 ^ (att - 1))

-----------------------------------------------------------------------------
(* Responses: status, the Location header (None when absent) and the body.  *)
(* A body is response.data: whether it is a string, what identifies its      *)
(* markup, and for each redirect pattern of _fetchEmailContent the target    *)
(* its regular expression captures (None when it does not match).            *)

Body(id, str, v, w, r, m) ==
    [id |-> id, str |-> str, redirecturl |-> v, winloc |-> w, replace |-> r, meta |-> m]

PageBody == Body("page", TRUE, None, None, None, None)
\* <script>window.location.href='https://x/y'</script>
HrefBody == Body("href", TRUE, None, XY, None, None)
\* var redirecturl = '/r'; window.location = 'https://x/y';
VarAndLocBody == Body("var+loc", TRUE, RelR, XY, None, None)
\* window.location = '/r'; window.location.replace('https://x/y');
LocAndReplaceBody == Body("loc+replace", TRUE, None, RelR, XY, None)
\* window.location.replace('https://x/y') and a meta refresh to /r
ReplaceAndMetaBody == Body("replace+meta", TRUE, None, None, XY, RelR)
\* <meta http-equiv="refresh" content="0;url=https://x/y">
MetaBody == Body("meta", TRUE, None, None, None, XY)
\* data that axios parsed into an object: typeof response.data !== 'string'
ObjectBody == Body("object", FALSE, None, None, None, None)

RedirectStatuses == {301, 302, 303, 307, 308}
Resp(st, loc, body) == [status |-> st, location |-> loc, data |-> body]
NoResponse == Resp(0, None, Body("", FALSE, None, None, None, None))

\* the responses the model's servers give
RedirectResponses ==
    { Resp(302, XY, PageBody),
      Resp(301, RelR, VarAndLocBody),
      Resp(303, Bad, PageBody),
      Resp(302, None, HrefBody),
      Resp(303, None, VarAndLocBody),
      Resp(307, None, LocAndReplaceBody),
      Resp(308, None, ReplaceAndMetaBody),
      Resp(301, None, MetaBody) }
FinalResponses ==
    { Resp(200, None, PageBody),
      Resp(200, None, HrefBody),
      Resp(304, None, MetaBody),
      Resp(200, None, ObjectBody),
      Resp(302, None, PageBody),
      Resp(307, None, ObjectBody) }
Responses == RedirectResponses \cup FinalResponses

\* raw Set-Cookie values, as the segments split(';') yields
CookieA == <<"a=1", " Path=/", " HttpOnly">>
CookieB == <<"b=2">>
CookieC == <<"c=3", " Max-Age=60">>
\* the n-th Set-Cookie value the servers send within one attempt
ServerCookie(n) == <<CookieA, CookieB, CookieC>>[((n - 1) % 3) + 1]
\* response.headers['set-cookie'] of a response that sets k cookies after n
\* earlier ones; <<>> stands for an absent header
SetCookieHeader(n, k) == [j \in 1..k |-> ServerCookie(n + j)]
\* how many Set-Cookie values one response may carry
SetCookieCounts == 0..2

\* c.split(';')[0]
CookiePair(c) == c[1]

\* faulty variant: a response that sets cookies replaces the jar
CollectCookiesReplacing(jar, setCookies) ==
    IF setCookies = <<>> THEN jar
    ELSE [j \in 1..Len(setCookies) |-> setCookies[j][1]]

\* setCookies.forEach(c => cookies.push(c.split(';')[0]))
RECURSIVE CollectCookies(_, _)
CollectCookies(jar, setCookies) ==
    IF setCookies = <<>> THEN jar
    ELSE CollectCookies(Append(jar, CookiePair(Head(setCookies))), Tail(setCookies))

\* cookies.join('; '): the pairs with a separator between neighbours
RECURSIVE Join(_, _)
Join(parts, sep) ==
    IF parts = <<>> THEN <<>>
    ELSE IF Len(parts) = 1 THEN <<parts[1]>>
    ELSE <<parts[1], sep>> \o Join(Tail(parts), sep)

\* ...(cookies.length > 0 ? { 'Cookie': cookies.join('; ') } : {})
CookieHeader(jar) == IF Len(jar) > 0 THEN [present |-> TRUE, value |-> Join(jar, "; ")]
                     ELSE [present |-> FALSE, value |-> <<>>]

\* faulty variant: every 3xx status counts as a redirect
IsRedirectAny3xx(st) == st >= 300 /\ st < 400

\* [301, 302, 303, 307, 308].includes(response.status)
IsRedirect(st) == st \in RedirectStatuses

\* faulty variant: window.location is tried before the redirecturl variable
BodyTargetLocationFirst(body) ==
    IF body.winloc # None THEN body.winloc
    ELSE IF body.redirecturl # None THEN body.redirecturl
    ELSE IF body.replace # None THEN body.replace
    ELSE IF body.meta # None THEN body.meta
    ELSE None

\* the JS/meta patterns, in the order the || chain tries them
BodyTarget(body) ==
    IF body.redirecturl # None THEN body.redirecturl
    ELSE IF body.winloc # None THEN body.winloc
    ELSE IF body.replace # None THEN body.replace
    ELSE IF body.meta # None THEN body.meta
    ELSE None

\* nextUrl after lines 184-209
NextUrl(resp) ==
    IF resp.location # None THEN resp.location
    ELSE IF resp.data.str THEN BodyTarget(resp.data)
    ELSE None

\* try { new URL(nextUrl, currentUrl).href } catch { nextUrl }
ResolveUrl(target, base) ==
    IF target.k = "abs" THEN target
    ELSE IF target.k = "rel" /\ base.k = "abs" THEN Abs(base.o, target.p)
    ELSE target

-----------------------------------------------------------------------------
(* getEmailContent(url) = withRetry(() => _fetchEmailContent(url))          *)

NoResult == [html |-> "", resolvedUrl |-> None]
\* seen: the raw Set-Cookie values that had arrived when the request left
NoRequest == [url |-> None, cookie |-> CookieHeader(<<>>), seen |-> <<>>]

\* _fetchEmailContent(url) is entered: lines 151-153
StartAttempt ==
    /\ currentUrl' = url
    /\ cookies' = <<>>
    /\ response' = NoResponse
    /\ i' = 0
    /\ hops' = 0
    /\ received' = <<>>
    /\ sent' = NoRequest

\* the axios.get of one loop iteration leaves with these headers
Request == [url |-> currentUrl, cookie |-> CookieHeader(cookies), seen |-> received]

\* faulty variant: <= in place of <
LoopContinuesInclusive(n) == n <= MAX_REDIRECTS

\* for (let i = 0; i < MAX_REDIRECTS; i++): the test before the next iteration
LoopContinues(n) == n < MAX_REDIRECTS

\* fn() threw e inside _fetchEmailContent: its catch wraps e, withRetry catches
Caught(e) ==
    /\ lastError' = WrapFetchError(e)
    /\ causes' = Append(causes, e)
    /\ pc' = "caught"

\* one loop iteration whose response is a redirect with a target: continue
FollowRedirect(resp, setCookies) ==
    /\ pc = "loop"
    /\ currentUrl.k = "abs"
    /\ Len(received) + Len(setCookies) <= MaxCookies
    /\ IsRedirect(resp.status)
    /\ NextUrl(resp) # None
    /\ sent' = Request
    /\ hops' = hops + 1
    /\ response' = resp
    /\ cookies' = CollectCookies(cookies, setCookies)
    /\ received' = received \o setCookies
    /\ currentUrl' = ResolveUrl(NextUrl(resp), currentUrl)
    /\ i' = i + 1
    /\ pc' = IF LoopContinues(i + 1) THEN "loop" ELSE "extract"
    /\ UNCHANGED <<url, attempt, lastError, delays, result, causes>>
    /\ UNCHANGED <<reportVars, qaVars, textVars, concVars>>

\* one loop iteration whose response ends the loop: break
StopAtResponse(resp, setCookies) ==
    /\ pc = "loop"
    /\ currentUrl.k = "abs"
    /\ Len(received) + Len(setCookies) <= MaxCookies
    /\ ~ (IsRedirect(resp.status) /\ NextUrl(resp) # None)
    /\ sent' = Request
    /\ hops' = hops + 1
    /\ response' = resp
    /\ cookies' = CollectCookies(cookies, setCookies)
    /\ received' = received \o setCookies
    /\ pc' = "extract"
    /\ UNCHANGED <<url, attempt, i, currentUrl, lastError, delays, result, causes>>
    /\ UNCHANGED <<reportVars, qaVars, textVars, concVars>>

\* one loop iteration whose axios.get rejects
RequestFails(e) ==
    /\ pc = "loop"
    /\ IF currentUrl.k = "abs"
       THEN e \in NetworkErrors \cup {HttpError(st) : st \in ErrorStatuses}
       ELSE e = InvalidUrl
    /\ sent' = Request
    /\ hops' = hops + 1
    /\ Caught(e)
    /\ UNCHANGED <<url, attempt, i, currentUrl, cookies, response, delays, result, received>>
    /\ UNCHANGED <<reportVars, qaVars, textVars, concVars>>

\* lines 229-297: cheerio.load(response.data) and the extraction succeed
ExtractContent ==
    /\ pc = "extract"
    /\ result' = [html |-> response.data.id, resolvedUrl |-> currentUrl]
    /\ pc' = "returned"
    /\ UNCHANGED <<url, attempt, i, currentUrl, cookies, response, lastError, delays,
                   hops, sent, received, causes>>
    /\ UNCHANGED <<reportVars, qaVars, textVars, concVars>>

\* the extraction throws: only data that is not a string can make it
ExtractFails ==
    /\ pc = "extract"
    /\ ~ response.data.str
    /\ Caught(ParseError)
    /\ UNCHANGED <<url, attempt, i, currentUrl, cookies, response, delays, result,
                   hops, sent, received>>
    /\ UNCHANGED <<reportVars, qaVars, textVars, concVars>>

\* withRetry, catch: not retryable or last attempt: throw error
RetryThrow ==
    /\ pc = "caught"
    /\ GivesUp(lastError, attempt)
    /\ pc' = "thrown"
    /\ UNCHANGED <<url, attempt, i, currentUrl, cookies, response, lastError, delays,
                   result, hops, sent, received, causes>>
    /\ UNCHANGED <<reportVars, qaVars, textVars, concVars>>

\* withRetry, catch: schedule the backoff timer
RetryBackoff ==
    /\ pc = "caught"
    /\ ~ GivesUp(lastError, attempt)
    /\ delays' = Append(delays, Delay(attempt))
    /\ pc' = "sleep"
    /\ UNCHANGED <<url, attempt, i, currentUrl, cookies, response, lastError, result,
                   hops, sent, received, causes>>
    /\ UNCHANGED <<reportVars, qaVars, textVars, concVars>>

\* the timer fires: attempt++, then fn() is called again while
\* attempt <= retries; after the loop, throw lastError (line 135)
BackoffElapsed ==
    /\ pc = "sleep"
    /\ attempt' = attempt + 1
    /\ IF attempt + 1 <= Retries
       THEN StartAttempt /\ pc' = "loop"
       ELSE pc' = "thrown"
            /\ UNCHANGED <<i, currentUrl, cookies, response, hops, sent, received>>
    /\ UNCHANGED <<url, lastError, delays, result, causes>>
    /\ UNCHANGED <<reportVars, qaVars, textVars, concVars>>

FetchIdle ==
    /\ url = None
    /\ pc = "idle"
    /\ attempt = 0
    /\ i = 0
    /\ currentUrl = None
    /\ cookies = <<>>
    /\ response = NoResponse
    /\ lastError = NoError
    /\ delays = <<>>
    /\ result = NoResult
    /\ hops = 0
    /\ sent = NoRequest
    /\ received = <<>>
    /\ causes = <<>>

ReportIdle ==
    /\ rpc = "idle"
    /\ doc = <<>>
    /\ page = <<>>
    /\ textComparison = <<>>
    /\ linkResult = <<>>
    /\ imageAltCheck = <<>>
    /\ responsive = <<>>
    /\ grammarCheck = <<>>
    /\ report = <<>>

\* no request is being handled
QaIdle ==
    /\ req = <<>>
    /\ onDisk = FALSE
    /\ res = <<>>
    /\ err = <<>>
    /\ fetchAttempts = 0
    /\ warned = FALSE

\* no concurrent calls are modelled
ConcIdle == jobs = <<>>

TextIdle ==
    /\ tpc = "idle"
    /\ argA = <<>>
    /\ argB = <<>>
    /\ out = <<>>

FetchInit ==
    /\ ConcIdle
    /\ url = StartUrl
    /\ pc = "loop"
    /\ attempt = 1
    /\ i = 0
    /\ currentUrl = url
    /\ cookies = <<>>
    /\ response = NoResponse
    /\ lastError = NoError
    /\ delays = <<>>
    /\ result = NoResult
    /\ hops = 0
    /\ sent = NoRequest
    /\ received = <<>>
    /\ causes = <<>>
    /\ ReportIdle
    /\ QaIdle
    /\ TextIdle

FetchNext ==
    \/ \E resp \in Responses, k \in SetCookieCounts :
          FollowRedirect(resp, SetCookieHeader(Len(received), k))
    \/ \E resp \in Responses, k \in SetCookieCounts :
          StopAtResponse(resp, SetCookieHeader(Len(received), k))
    \/ \E e \in NetworkErrors \cup {HttpError(st) : st \in ErrorStatuses} \cup {InvalidUrl} :
          RequestFails(e)
    \/ ExtractContent
    \/ ExtractFails
    \/ RetryThrow
    \/ RetryBackoff
    \/ BackoffElapsed

FetchSpec == FetchInit /\ [][FetchNext]_vars

-----------------------------------------------------------------------------
(* Two getEmailContent calls in flight at the same time, as two /qa         *)
(* requests make them. Every await of a call is a point where the other     *)
(* call may run. The backoff delay and the restart are one step here.       *)

Calls == {1, 2}
\* the URL each call was given, and the cookie its servers set
UrlOf(c) == <<StartUrl, Abs("https://e.com", "/n")>>[c]
SetCookieOf(c, k) == IF k = 0 THEN <<>> ELSE <<<<CookieA, CookieB>>[c]>>

\* lines 151-153 of one invocation of _fetchEmailContent
FreshAttempt(c, att) ==
    [pc |-> "loop", attempt |-> att, i |-> 0, currentUrl |-> UrlOf(c), cookies |-> <<>>,
     received |-> <<>>, sent |-> NoRequest, lastError |-> NoError]

\* faulty variant: one jar for all calls
JarOfFirst(js, c) == js[1].cookies

\* let cookies = [] (line 152): the binding of invocation c
JarOf(js, c) == js[c].cookies

JobRequest(c) ==
    [url |-> jobs[c].currentUrl, cookie |-> CookieHeader(JarOf(jobs, c)),
     seen |-> jobs[c].received]

ConcInit ==
    /\ jobs = [c \in Calls |-> FreshAttempt(c, 1)]
    /\ FetchIdle
    /\ ReportIdle
    /\ QaIdle
    /\ TextIdle

JobFollowRedirect(c, resp, setCookies) ==
    /\ jobs[c].pc = "loop"
    /\ jobs[c].i < MaxConcHops
    /\ IsRedirect(resp.status)
    /\ NextUrl(resp) # None
    /\ jobs' = [jobs EXCEPT ![c] =
                   [@ EXCEPT !.sent = JobRequest(c),
                             !.cookies = CollectCookies(JarOf(jobs, c), setCookies),
                             !.received = @ \o setCookies,
                             !.currentUrl = ResolveUrl(NextUrl(resp), @),
                             !.i = @ + 1,
                             !.pc = IF LoopContinues(jobs[c].i + 1) THEN "loop"
                                    ELSE "returned"]]
    /\ UNCHANGED <<fetchVars, reportVars, qaVars, textVars>>

JobStopAtResponse(c, resp, setCookies) ==
    /\ jobs[c].pc = "loop"
    /\ ~ (IsRedirect(resp.status) /\ NextUrl(resp) # None)
    /\ jobs' = [jobs EXCEPT ![c] =
                   [@ EXCEPT !.sent = JobRequest(c),
                             !.cookies = CollectCookies(JarOf(jobs, c), setCookies),
                             !.received = @ \o setCookies,
                             !.pc = "returned"]]
    /\ UNCHANGED <<fetchVars, reportVars, qaVars, textVars>>

\* axios.get rejects: the wrapper error reaches withRetry (lines 114-131)
JobRequestFails(c, e) ==
    /\ jobs[c].pc = "loop"
    /\ jobs' = [jobs EXCEPT ![c] =
                   [@ EXCEPT !.sent = JobRequest(c),
                             !.lastError = WrapFetchError(e),
                             !.pc = IF GivesUp(WrapFetchError(e), jobs[c].attempt)
                                    THEN "thrown" ELSE "sleep"]]
    /\ UNCHANGED <<fetchVars, reportVars, qaVars, textVars>>

\* the backoff timer fires and fn() is called again
JobBackoffElapsed(c) ==
    /\ jobs[c].pc = "sleep"
    /\ jobs' = [jobs EXCEPT ![c] =
                   [FreshAttempt(c, jobs[c].attempt + 1)
                        EXCEPT !.lastError = jobs[c].lastError]]
    /\ UNCHANGED <<fetchVars, reportVars, qaVars, textVars>>

ConcNext ==
    \E c \in Calls :
        \/ \E k \in 0..1 : JobFollowRedirect(c, Resp(302, XY, PageBody), SetCookieOf(c, k))
        \/ \E k \in 0..1 : JobStopAtResponse(c, Resp(200, None, PageBody), SetCookieOf(c, k))
        \/ \E e \in {AxiosTimeout, HttpError(404)} : JobRequestFails(c, e)
        \/ JobBackoffElapsed(c)

ConcSpec == ConcInit /\ [][ConcNext]_vars

-----------------------------------------------------------------------------
(* Text. A string is the sequence of its characters, each a one-character    *)
(* string; "LSQ", "RSQ", "LDQ", "RDQ" stand for the characters U+2018,       *)
(* U+2019, U+201C, U+201D. Indices of the String operators are 0-based, as   *)
(* in the source.                                                            *)

LowerLetters ==
    {"a", "b", "c", "d", "e", "f", "g", "h", "i", "j", "k", "l", "m", "n",
    "o", "p", "q", "r", "s", "t", "u", "v", "w", "x", "y", "z"}
UpperLetters ==
    {"A", "B", "C", "D", "E", "F", "G", "H", "I", "J", "K", "L", "M", "N",
    "O", "P", "Q", "R", "S", "T", "U", "V", "W", "X", "Y", "Z"}
Digits == {"0", "1", "2", "3", "4", "5", "6", "7", "8", "9"}
\* \w
WordChars == LowerLetters \cup UpperLetters \cup Digits \cup {"_"}
\* \s
Whitespace == {" ", "\n", "\r", "\t"}

LowerTable ==
    ("A" :> "a") @@ ("B" :> "b") @@ ("C" :> "c") @@ ("D" :> "d") @@ ("E"
    :> "e") @@ ("F" :> "f") @@ ("G" :> "g") @@ ("H" :> "h") @@ ("I" :>
    "i") @@ ("J" :> "j") @@ ("K" :> "k") @@ ("L" :> "l") @@ ("M" :> "m")
    @@ ("N" :> "n") @@ ("O" :> "o") @@ ("P" :> "p") @@ ("Q" :> "q") @@
    ("R" :> "r") @@ ("S" :> "s") @@ ("T" :> "t") @@ ("U" :> "u") @@ ("V"
    :> "v") @@ ("W" :> "w") @@ ("X" :> "x") @@ ("Y" :> "y") @@ ("Z" :>
    "z")
LowerChar(c) == IF c \in UpperLetters THEN LowerTable[c] ELSE c

\* an operator's argument is evaluated anew at each use of the parameter;
\* these apply F to the values of the arguments, computed once
Once1(F(_), a) == CHOOSE r \in {F(x) : x \in {a}} : TRUE
Once2(F(_, _), a, b) == CHOOSE r \in {F(x, y) : x \in {a}, y \in {b}} : TRUE
Once3(F(_, _, _), a, b, c) ==
    CHOOSE r \in {F(x, y, z) : x \in {a}, y \in {b}, z \in {c}} : TRUE

\* String.prototype.toLowerCase
ToLowerCase(str) ==
    LET lower(s) == [j \in 1..Len(s) |-> LowerChar(s[j])]
    IN Once1(lower, str)

\* String.prototype.trim
Trim(str) ==
    LET trim(s) ==
            LET solid == {j \in 1..Len(s) : s[j] \notin Whitespace}
            IN IF solid = {} THEN <<>>
               ELSE SubSeq(s, CHOOSE j \in solid : \A o \in solid : j <= o,
                              CHOOSE j \in solid : \A o \in solid : j >= o)
    IN Once1(trim, str)

\* s.substring(from), for 0 <= from
Rest(str, from) ==
    LET rest(s, f) == SubSeq(s, f + 1, Len(s))
    IN Once2(rest, str, from)

\* does needle occur in s at 0-based index at
OccursAt(s, needle, at) ==
    /\ at >= 0
    /\ at + Len(needle) <= Len(s)
    /\ \A j \in 1..Len(needle) : s[at + j] = needle[j]

\* String.prototype.indexOf(needle, from): -1 when there is no occurrence
IndexOf(str, needle, from) ==
    LET indexOf(s, n, f) ==
            LET lo == IF f < 0 THEN 0 ELSE f
                hits == {at \in lo..Len(s) : OccursAt(s, n, at)}
            IN IF hits = {} THEN -1 ELSE CHOOSE at \in hits : \A o \in hits : at <= o
    IN Once3(indexOf, str, needle, from)

\* String.prototype.lastIndexOf(needle, from)
LastIndexOf(str, needle, from) ==
    LET lastIndexOf(s, n, f) ==
            LET hi == IF f < 0 THEN 0 ELSE f
                hits == {at \in 0..hi : OccursAt(s, n, at)}
            IN IF hits = {} THEN -1 ELSE CHOOSE at \in hits : \A o \in hits : at >= o
    IN Once3(lastIndexOf, str, needle, from)

\* String.prototype.includes / startsWith
StrIncludes(s, needle) == IndexOf(s, needle, 0) # -1
StartsWith(str, needle) ==
    LET startsWith(s, n) == OccursAt(s, n, 0)
    IN Once2(startsWith, str, needle)

\* String.prototype.substring(a, b): arguments clamped to 0..length, swapped
\* when a > b
Substring(str, a, b) ==
    LET substring(s, x, y) ==
            LET clamp(v) == IF v < 0 THEN 0 ELSE IF v > Len(s) THEN Len(s) ELSE v
                lo == IF clamp(x) <= clamp(y) THEN clamp(x) ELSE clamp(y)
                hi == IF clamp(x) <= clamp(y) THEN clamp(y) ELSE clamp(x)
            IN SubSeq(s, lo + 1, hi)
    IN Once3(substring, str, a, b)

\* replace(/[set]+/g, " "): every maximal run of characters of set becomes " "
ReplaceRuns(str, set) ==
    LET replace(s) ==
            LET StartsOrOutside(j) == s[j] \notin set \/ j = 1 \/ s[j - 1] \notin set
                blank(kept) ==
                    [j \in 1..Len(kept) |-> IF s[kept[j]] \in set THEN " " ELSE s[kept[j]]]
            IN Once1(blank, SelectSeq([j \in 1..Len(s) |-> j], StartsOrOutside))
    IN Once1(replace, str)

\* replace(/<[^>]+>/g, " "): a match starts at a "<" that is followed by a
\* character other than ">" and later by a ">", and ends at the first such ">"
RECURSIVE StripTags(_)
StripTags(str) ==
    LET strip(s) ==
            LET opens == {at \in 0..(Len(s) - 3) :
                              /\ s[at + 1] = "<"
                              /\ s[at + 2] # ">"
                              /\ IndexOf(s, <<">">>, at + 2) # -1}
                open == CHOOSE at \in opens : \A o \in opens : at <= o
                close == IndexOf(s, <<">">>, open + 2)
            IN IF opens = {} THEN s
               ELSE SubSeq(s, 1, open) \o <<" ">> \o StripTags(Rest(s, close + 1))
    IN Once1(strip, str)

\* replace(/[‘’]/g, "'").replace(/[“”]/g, '"')
StraightQuote(c) ==
    IF c \in {"LSQ", "RSQ"} THEN "'" ELSE IF c \in {"LDQ", "RDQ"} THEN "\"" ELSE c
UnifyQuotes(str) ==
    LET unify(s) == [j \in 1..Len(s) |-> StraightQuote(s[j])]
    IN Once1(unify, str)

\* replace(/[^\w\s]/g, "")
IsWordOrSpace(c) == c \in WordChars \cup Whitespace
StripPunctuation(s) == SelectSeq(s, IsWordOrSpace)

\* replace(/[\(\[].*?[\)\]]/g, ""): from an opening bracket to the nearest
\* closing one on the same line
RECURSIVE StripAsides(_)
StripAsides(str) ==
    LET strip(s) ==
            LET Closer(at) == IF \E c \in at..(Len(s) - 1) : s[c + 1] \in {")", "]"}
                              THEN CHOOSE c \in at..(Len(s) - 1) :
                                       /\ s[c + 1] \in {")", "]"}
                                       /\ \A o \in at..(c - 1) : s[o + 1] \notin {")", "]"}
                              ELSE -1
                opens == {at \in 0..(Len(s) - 2) :
                              /\ s[at + 1] \in {"(", "["}
                              /\ Closer(at + 1) # -1
                              /\ \A o \in (at + 1)..(Closer(at + 1) - 1) :
                                     s[o + 1] \notin {"\n", "\r"}}
                open == CHOOSE at \in opens : \A o \in opens : at <= o
            IN IF opens = {} THEN s
               ELSE SubSeq(s, 1, open) \o StripAsides(Rest(s, Closer(open + 1) + 1))
    IN Once1(strip, str)

\* normalize
normalize(text) ==
    Trim(ToLowerCase(StripAsides(StripPunctuation(
        ReplaceRuns(ReplaceRuns(UnifyQuotes(StripTags(text)), {"\r", "\n"}),
                    Whitespace)))))

\* s.split(" ").filter(Boolean): the non-empty pieces between single spaces
SplitWords(str) ==
    LET split(s) ==
            LET Starts(j) == s[j] # " " /\ (j = 1 \/ s[j - 1] = " ")
                End(j) == CHOOSE e \in j..Len(s) :
                              /\ e = Len(s) \/ s[e + 1] = " "
                              /\ \A o \in j..(e - 1) : s[o + 1] # " "
                pieces(starts) == [w \in 1..Len(starts) |->
                                      SubSeq(s, starts[w], End(starts[w]))]
            IN Once1(pieces, SelectSeq([j \in 1..Len(s) |-> j], Starts))
    IN Once1(split, str)

-----------------------------------------------------------------------------
(* Scores are exact fractions n/d in lowest terms.                          *)

RECURSIVE Gcd(_, _)
Gcd(a, b) == IF b = 0 THEN a ELSE Gcd(b, a % b)
Frac(n, d) == IF n = 0 THEN [n |-> 0, d |-> 1] ELSE [n |-> n \div Gcd(n, d), d |-> d \div Gcd(n, d)]
FracAdd(a, b) == Frac(a.n * b.d + b.n * a.d, a.d * b.d)
FracMul(a, b) == Frac(a.n * b.n, a.d * b.d)
FracDiv(a, b) == Frac(a.n * b.d, a.d * b.n)
FracGT(a, b) == a.n * b.d > b.n * a.d
FracGE(a, b) == a.n * b.d >= b.n * a.d
FracLT(a, b) == a.n * b.d < b.n * a.d
\* Math.round(x * 100)
RoundPercent(x) == (200 * x.n + x.d) \div (2 * x.d)

\* faulty variant: a word that occurs twice does not count
ContainsOnce(words, w) == Cardinality({j \in 1..Len(words) : words[j] = w}) = 1

\* array.includes(w)
Contains(words, w) == \E j \in 1..Len(words) : words[j] = w

\* getSimilarityScore. early marks the return for an empty textA, which has
\* no precision, recall or totalEmailWords property: the fields hold what the
\* callers' "|| 0" turns them into.
getSimilarityScore(textA, textB) ==
    LET score(wordsA, wordsB) ==
            LET InB(w) == Contains(wordsB, w)
                NotInB(w) == ~ Contains(wordsB, w)
                wordsASet == [j \in 1..Len(wordsA) |-> ToLowerCase(wordsA[j])]
                NotInA(w) == ~ Contains(wordsASet, ToLowerCase(w))
                matchedWords == SelectSeq(wordsA, InB)
                unmatchedWords == SelectSeq(wordsA, NotInB)
                extraWords == SelectSeq(wordsB, NotInA)
                precision == IF Len(wordsA) > 0 THEN Frac(Len(matchedWords), Len(wordsA))
                             ELSE Frac(0, 1)
                recall == IF Len(wordsB) > 0 THEN Frac(Len(matchedWords), Len(wordsB))
                          ELSE Frac(0, 1)
                f1 == IF FracGT(FracAdd(precision, recall), Frac(0, 1))
                      THEN FracDiv(FracMul(Frac(2, 1), FracMul(precision, recall)),
                                   FracAdd(precision, recall))
                      ELSE Frac(0, 1)
            IN IF Len(wordsA) = 0
               THEN [early |-> TRUE, score |-> Frac(0, 1), precision |-> Frac(0, 1),
                     recall |-> Frac(0, 1), matchedWords |-> <<>>,
                     unmatchedWords |-> wordsA, extraWords |-> <<>>, totalWords |-> 0,
                     totalEmailWords |-> 0]
               ELSE [early |-> FALSE, score |-> f1, precision |-> precision,
                     recall |-> recall, matchedWords |-> matchedWords,
                     unmatchedWords |-> unmatchedWords, extraWords |-> extraWords,
                     totalWords |-> Len(wordsA), totalEmailWords |-> Len(wordsB)]
    IN Once2(score, SplitWords(normalize(textA)), SplitWords(normalize(textB)))

Best(segment, score, precision, recall) ==
    [segment |-> segment, score |-> score, precision |-> precision, recall |-> recall]
NoSegment == Best(<<>>, Frac(0, 1), Frac(0, 1), Frac(0, 1))

\* the combinations tried for start index j (1-based): 2 paragraphs, then 3
Combined2(paras, j) == paras[j] \o <<" ">> \o paras[j + 1]
Combined3(paras, j) == Combined2(paras, j) \o <<" ">> \o paras[j + 2]
\* faulty variant: no combination is tried
NoCombinations(paras, j) == <<>>

RECURSIVE Combinations(_, _)
Combinations(paras, j) ==
    IF j > Len(paras) - 1 THEN <<>>
    ELSE <<Combined2(paras, j)>>
         \o (IF j <= Len(paras) - 2 THEN <<Combined3(paras, j)>> ELSE <<>>)
         \o Combinations(paras, j + 1)

\* faulty variant: the combinations are scored before the single paragraphs
CandidatesCombinationsFirst(paras) == Combinations(paras, 1) \o paras

\* Strategy 1: the candidates in the order the loops score them
Candidates(paras) ==
    LET all(ps) == ps \o Combinations(ps, 1)
    IN Once1(all, paras)

\* faulty variant: >= in place of >
BetterOrEqual(best, candidate, scoreResult) ==
    IF FracGE(scoreResult.score, best.score)
    THEN Best(candidate, scoreResult.score, scoreResult.precision, scoreResult.recall)
    ELSE best

\* if (result.score > bestScore) { best = candidate }
Better(best, candidate, scoreResult) ==
    LET better(b, c, scored) ==
            IF FracGT(scored.score, b.score)
            THEN Best(c, scored.score, scored.precision, scored.recall)
            ELSE b
    IN Once3(better, best, candidate, scoreResult)

RECURSIVE BestCandidate(_, _, _)
BestCandidate(docBlock, cands, best) ==
    LET scan(d, cs, b) ==
            IF cs = <<>> THEN b
            ELSE BestCandidate(d, Tail(cs),
                               Better(b, Head(cs), getSimilarityScore(d, Head(cs))))
    IN Once3(scan, docBlock, cands, best)

Max(a, b) == IF a >= b THEN a ELSE b
Min(a, b) == IF a <= b THEN a ELSE b

\* docWords.filter(w => w.length > 5).slice(0, 3)
IsLongWord(w) == Len(w) > 5
LongWords(docBlock) ==
    LET first(long) == SubSeq(long, 1, Min(3, Len(long)))
    IN Once1(first, SelectSeq(SplitWords(normalize(docBlock)), IsLongWord))

\* Strategy 2, the body of the for loop for the first long word found in the
\* flat text (the loop breaks after it)
ContextWindow(docBlock, emailTextFlat, word) ==
    LET window(d, flat, idx) ==
            LET start == Max(0, LastIndexOf(flat, <<" ">>, Max(0, idx - 20)))
                found == IndexOf(flat, <<" ">>, idx + Len(d) + 20)
                \* found || emailTextFlat.length: only 0 is falsy, -1 is kept
                end == Min(Len(flat), IF found = 0 THEN Len(flat) ELSE found)
            IN [idx |-> idx, start |-> start, end |-> end,
                context |-> Trim(Substring(flat, start, end))]
    IN Once3(window, docBlock, emailTextFlat,
             IndexOf(ToLowerCase(emailTextFlat), word, 0))

Ellipsis == <<".", ".", ".">>

\* lines 393-404: the context replaces the best segment when it scores higher
BetterContext(best, w, ctx, emailTextFlat) ==
    IF FracGT(ctx.score, best.score)
    THEN Best((IF w.start > 0 THEN Ellipsis ELSE <<>>) \o w.context
                \o (IF w.end < Len(emailTextFlat) THEN Ellipsis ELSE <<>>),
              ctx.score, ctx.precision, ctx.recall)
    ELSE best

\* Strategy 2: lines 380-406
FlatFallback(docBlock, emailTextFlat, best) ==
    LET fallback(d, flat, b) ==
            IF ~ (FracLT(b.score, Frac(4, 10)) /\ flat # <<>>) THEN b
            ELSE IF ~ FracGT(getSimilarityScore(d, flat).precision, Frac(5, 10))
            THEN b
            ELSE LET among(emailLower, longWords) ==
                         LET hits == {j \in 1..Len(longWords) :
                                          IndexOf(emailLower, longWords[j], 0) # -1}
                             scored(w) ==
                                 LET pick(ctx) == BetterContext(b, w, ctx, flat)
                                 IN Once1(pick, getSimilarityScore(d, w.context))
                         IN IF hits = {} THEN b
                            ELSE Once1(scored,
                                       ContextWindow(d, flat,
                                           longWords[CHOOSE j \in hits :
                                                         \A o \in hits : j <= o]))
                 IN Once2(among, ToLowerCase(flat), LongWords(d))
    IN Once3(fallback, docBlock, emailTextFlat, best)

\* Strategy 2 up to the cut (lines 380-392): the window it cuts from the flat
\* text, NoWindow when it cuts none
NoWindow == [idx |-> -1, start |-> 0, end |-> 0, context |-> <<>>]
FallbackWindow(docBlock, emailTextFlat, best) ==
    LET cut(d, flat, b) ==
            IF ~ (FracLT(b.score, Frac(4, 10)) /\ flat # <<>>) THEN NoWindow
            ELSE IF ~ FracGT(getSimilarityScore(d, flat).precision, Frac(5, 10))
            THEN NoWindow
            ELSE LET among(emailLower, longWords) ==
                         LET hits == {j \in 1..Len(longWords) :
                                          IndexOf(emailLower, longWords[j], 0) # -1}
                         IN IF hits = {} THEN NoWindow
                            ELSE ContextWindow(d, flat,
                                     longWords[CHOOSE j \in hits : \A o \in hits : j <= o])
                 IN Once2(among, ToLowerCase(flat), LongWords(d))
    IN Once3(cut, docBlock, emailTextFlat, best)

\* findBestEmailSegment
findBestEmailSegment(docBlock, emailParagraphs, emailTextFlat) ==
    IF docBlock = <<>> THEN NoSegment
    ELSE FlatFallback(docBlock, emailTextFlat,
                      BestCandidate(docBlock, Candidates(emailParagraphs), NoSegment))

-----------------------------------------------------------------------------
(* compareTextDetailed                                                      *)

\* docText.split(/\n{1,2}/): a separator is one newline, or two when a second
\* follows at once
RECURSIVE SplitBlocks(_)
SplitBlocks(docText) ==
    LET split(s, nl) ==
            LET skip == IF OccursAt(s, <<"\n", "\n">>, nl) THEN 2 ELSE 1
            IN IF nl = -1 THEN <<s>>
               ELSE <<SubSeq(s, 1, nl)>> \o SplitBlocks(Rest(s, nl + skip))
    IN Once2(split, docText, IndexOf(docText, <<"\n">>, 0))

\* .map(t => t.trim()).filter(t => t.length > 10)
IsLongBlock(t) == Len(t) > 10
DocBlocks(docText) ==
    LET blocks(pieces) ==
            SelectSeq([j \in 1..Len(pieces) |-> Trim(pieces[j])], IsLongBlock)
    IN Once1(blocks, SplitBlocks(docText))

STR_SUBJECT_COLON == <<"s", "u", "b", "j", "e", "c", "t", ":">>
STR_PREHEADER_COLON == <<"p", "r", "e", "h", "e", "a", "d", "e", "r", ":">>
STR_SUBJECT == <<"s", "u", "b", "j", "e", "c", "t">>
STR_PREHEADER == <<"p", "r", "e", "h", "e", "a", "d", "e", "r">>

\* lines 437-438
IsMetadata(block) ==
    LET isMetadata(lower) ==
            \/ StrIncludes(lower, STR_SUBJECT_COLON)
            \/ StrIncludes(lower, STR_PREHEADER_COLON)
            \/ StartsWith(lower, STR_SUBJECT)
            \/ StartsWith(lower, STR_PREHEADER)
    IN Once1(isMetadata, ToLowerCase(block))

\* lines 439-443; index is the block's position in docBlocks (for observation)
MetadataItem(index, block) ==
    [index |-> index,
     type |-> IF StrIncludes(ToLowerCase(block), STR_SUBJECT) THEN "Subject Line"
              ELSE "Preheader",
     content |-> block]

\* faulty variant: > in place of >=
VerdictStrict(segmentScore) ==
    IF FracGT(segmentScore, Frac(9, 10)) THEN "FULL MATCH"
    ELSE IF FracGT(segmentScore, Frac(7, 10)) THEN "PARTIAL MATCH"
    ELSE "NOT FOUND"

\* lines 467-476, with threshold = 0.7
Verdict(segmentScore) ==
    IF FracGE(segmentScore, Frac(9, 10)) THEN "FULL MATCH"
    ELSE IF FracGE(segmentScore, Frac(7, 10)) THEN "PARTIAL MATCH"
    ELSE "NOT FOUND"

\* blockResult; index is the block's position in docBlocks and score the
\* unrounded bestMatch.score (both for observation)
BlockResult(index, block, emailParagraphs, emailText) ==
    LET blockResult(best, words) ==
            [index |-> index,
             originalText |-> block,
             emailText |-> best.segment,
             matchPercentage |-> RoundPercent(best.score),
             precision |-> RoundPercent(best.precision),
             recall |-> RoundPercent(best.recall),
             totalWords |-> words.totalWords,
             totalEmailWords |-> words.totalEmailWords,
             score |-> best.score,
             status |-> Verdict(best.score)]
        scored(best) == Once2(blockResult, best, getSimilarityScore(block, best.segment))
    IN Once1(scored, findBestEmailSegment(block, emailParagraphs, emailText))

NoResults == [matched |-> <<>>, partialMatch |-> <<>>, notFound |-> <<>>, metadata |-> <<>>]

\* lines 467-476: the bucket of a block's result
File(results, r) ==
    IF r.status = "FULL MATCH" THEN [results EXCEPT !.matched = Append(@, r)]
    ELSE IF r.status = "PARTIAL MATCH" THEN [results EXCEPT !.partialMatch = Append(@, r)]
    ELSE [results EXCEPT !.notFound = Append(@, r)]

\* faulty variant: the metadata branch lacks its return
VisitBlockFallingThrough(results, index, block, emailParagraphs, emailText) ==
    Once2(File,
          IF IsMetadata(block)
          THEN [results EXCEPT !.metadata = Append(@, MetadataItem(index, block))]
          ELSE results,
          BlockResult(index, block, emailParagraphs, emailText))

\* the callback of docBlocks.forEach
VisitBlock(results, index, block, emailParagraphs, emailText) ==
    IF IsMetadata(block)
    THEN [results EXCEPT !.metadata = Append(@, MetadataItem(index, block))]
    ELSE Once2(File, results, BlockResult(index, block, emailParagraphs, emailText))

\* docBlocks.forEach from position index on
RECURSIVE VisitBlocks(_, _, _, _, _)
VisitBlocks(results, index, docBlocks, emailParagraphs, emailText) ==
    LET rest(visited) ==
            VisitBlocks(visited, index + 1, docBlocks, emailParagraphs, emailText)
    IN IF index > Len(docBlocks) THEN results
       ELSE Once1(rest, VisitBlock(results, index, docBlocks[index],
                                   emailParagraphs, emailText))

\* lines 480-494; overallScore = Math.round((full + partial * 0.5) / total * 100)
Summary(results) ==
    LET totalBlocks == Len(results.matched) + Len(results.partialMatch) + Len(results.notFound)
    IN [totalBlocks |-> totalBlocks,
        fullMatches |-> Len(results.matched),
        partialMatches |-> Len(results.partialMatch),
        notFound |-> Len(results.notFound),
        metadataItems |-> Len(results.metadata),
        overallScore |-> IF totalBlocks > 0
                         THEN RoundPercent(Frac(2 * Len(results.matched) + Len(results.partialMatch),
                                                2 * totalBlocks))
                         ELSE 100]

compareTextDetailed(docText, emailText, emailParagraphs) ==
    LET visit(docBlocks) ==
            VisitBlocks(NoResults, 1, docBlocks, emailParagraphs, emailText)
        returned(results) ==
            [matched |-> results.matched, partialMatch |-> results.partialMatch,
             notFound |-> results.notFound, metadata |-> results.metadata,
             summary |-> Summary(results)]
    IN Once1(returned, Once1(visit, DocBlocks(docText)))

-----------------------------------------------------------------------------
(* Link check. An href that new URL() parses is given by its origin and     *)
(* pathname and its query string; one it rejects by the text before and     *)
(* after its first "?".                                                     *)

Href(origin, pathname, search) ==
    [valid |-> TRUE, origin |-> origin, pathname |-> pathname, search |-> search]
RawHref(head, search) ==
    [valid |-> FALSE, origin |-> "", pathname |-> head, search |-> search]

\* stripUtm: url.origin + url.pathname (the utm deletions act on
\* url.searchParams, which the returned string does not include); in the
\* catch branch href.split("?")[0].trim()
stripUtm(href) ==
    IF href.valid THEN href.origin \o href.pathname ELSE href.pathname

\* compareLinks
compareLinks(docLinks, emailLinks) ==
    LET emailMap == [j \in 1..Len(emailLinks) |-> stripUtm(emailLinks[j].href)]
        Found(dl) == Contains(emailMap, stripUtm(dl.href))
        NotFound(dl) == ~ Found(dl)
    IN [report |-> [j \in 1..Len(docLinks) |->
                       [text |-> docLinks[j].text, docHref |-> docLinks[j].href,
                        foundInEmail |-> IF Found(docLinks[j]) THEN "YES" ELSE "NO"]],
        missing |-> SelectSeq(docLinks, NotFound)]

-----------------------------------------------------------------------------
(* Image alt check. An image is its src and its alt: has tells whether the  *)
(* alt attribute is in the markup (alt is undefined otherwise).             *)

Img(src, has, alt) == [src |-> src, alt |-> [has |-> has, text |-> alt]]

AllIn(s, set) == \A j \in 1..Len(s) : s[j] \in set

\* faulty variant: no image counts as decorative
IsDecorativeNever(src) == FALSE

\* decorativePatterns (all case-insensitive), or width=1 and height=1 in src
DecorativeWords ==
    {<<"s", "p", "a", "c", "e", "r">>, <<"p", "i", "x", "e", "l">>, <<"t", "r", "a", "c", "k", "i", "n", "g">>, <<"b", "l", "a", "n", "k", ".", "g", "i", "f">>, <<"1", "x", "1">>, <<"t", "r", "a", "n", "s", "p", "a", "r", "e", "n", "t">>, <<"s", "h", "i", "m">>}
STR_WIDTH1 == <<"w", "i", "d", "t", "h", "=", "1">>
STR_HEIGHT1 == <<"h", "e", "i", "g", "h", "t", "=", "1">>
IsDecorative(src) ==
    \/ \E w \in DecorativeWords : StrIncludes(ToLowerCase(src), w)
    \/ (StrIncludes(src, STR_WIDTH1) /\ StrIncludes(src, STR_HEIGHT1))

\* genericPatterns
GenericWords ==
    {<<"i", "m", "a", "g", "e">>, <<"i", "m", "g">>, <<"p", "h", "o", "t", "o">>, <<"p", "i", "c", "t", "u", "r", "e">>, <<"b", "a", "n", "n", "e", "r">>, <<"l", "o", "g", "o">>, <<"i", "c", "o", "n">>, <<"s", "p", "a", "c", "e", "r">>, <<"p", "i", "x", "e", "l">>, <<"u", "n", "t", "i", "t", "l", "e", "d">>}
\* /^prefix\s*\d+$/i
IsNumbered(alt, prefix) ==
    /\ StartsWith(ToLowerCase(alt), prefix)
    /\ LET tail == Rest(alt, Len(prefix))
           digits == {j \in 1..Len(tail) : tail[j] \in Digits}
       IN /\ digits # {}
          /\ \A j \in 1..Len(tail) :
                 IF \E d \in digits : d <= j THEN tail[j] \in Digits
                 ELSE tail[j] \in Whitespace
IsGeneric(alt) ==
    \/ ToLowerCase(alt) \in GenericWords
    \/ (alt # <<>> /\ AllIn(alt, Digits))
    \/ IsNumbered(alt, <<"i", "m", "a", "g", "e">>)
    \/ IsNumbered(alt, <<"i", "m", "g">>)
    \/ (StartsWith(ToLowerCase(alt), <<"d", "s", "c">>) /\ Len(alt) > 3
          /\ AllIn(Rest(alt, 3), Digits))
    \/ StartsWith(ToLowerCase(alt), <<"s", "c", "r", "e", "e", "n", "s", "h", "o", "t">>)
    \/ (Len(alt) > 1 /\ alt[1] = "." /\ AllIn(Rest(alt, 1), WordChars))
    \/ StartsWith(ToLowerCase(alt), <<"h", "t", "t", "p", ":", "/", "/">>)
    \/ StartsWith(ToLowerCase(alt), <<"h", "t", "t", "p", "s", ":", "/", "/">>)

\* the callback of images.forEach: lines 566-608
ClassifyImage(img) ==
    LET alt == IF img.alt.has THEN Trim(img.alt.text) ELSE <<>>
        isDecorative == IsDecorative(img.src)
    IN IF ~ img.alt.has
       THEN [status |-> "MISSING", severity |-> IF isDecorative THEN "low" ELSE "high"]
       ELSE IF alt = <<>>
       THEN IF isDecorative THEN [status |-> "OK", severity |-> "none"]
            ELSE [status |-> "EMPTY", severity |-> "medium"]
       ELSE IF IsGeneric(alt) THEN [status |-> "GENERIC", severity |-> "medium"]
       ELSE [status |-> "OK", severity |-> "none"]

\* checkImageAltTags
checkImageAltTags(images) ==
    LET results == [j \in 1..Len(images) |-> ClassifyImage(images[j])]
        Count(st) == Cardinality({j \in 1..Len(images) : results[j].status = st})
        issueCount == Count("MISSING") + Count("EMPTY") + Count("GENERIC")
    IN [results |-> results,
        summary |-> [totalImages |-> Len(images),
                     missingAlt |-> Count("MISSING"),
                     emptyAlt |-> Count("EMPTY"),
                     genericAlt |-> Count("GENERIC"),
                     validAlt |-> Count("OK"),
                     issueCount |-> issueCount,
                     status |-> IF issueCount = 0 THEN "PASS"
                                ELSE IF Count("MISSING") > 0 THEN "FAIL" ELSE "WARNING"]]

-----------------------------------------------------------------------------
(* The auxiliary checks. What the remote side answers is an input: for      *)
(* checkResponsive the page's traits or the error axios.get raises, for     *)
(* checkGrammar the issue counts of the LanguageTool reply or the error     *)
(* axios.post raises.                                                       *)

AuxTimeout == <<"timeout", "of", "20000ms", "exceeded">>
AuxServiceError == <<"Request", "failed", "with", "status", "code", "503">>

PageTraits(viewport, media, tables) ==
    [ok |-> TRUE, hasViewport |-> viewport, hasMediaQueries |-> media,
     hasResponsiveTables |-> tables]
AuxFailure(message) == [ok |-> FALSE, message |-> message]

\* checkResponsive; the labels stand for the strings that start with them
checkResponsive(fetched) ==
    IF ~ fetched.ok
    THEN [responsive |-> "Unable to check", details |-> [error |-> fetched.message]]
    ELSE [responsive |->
              IF fetched.hasViewport
                 /\ (fetched.hasMediaQueries \/ fetched.hasResponsiveTables)
              THEN "YES"
              ELSE IF fetched.hasViewport THEN "MAYBE" ELSE "NO",
          details |-> [hasViewportTag |-> fetched.hasViewport,
                       hasMediaQueries |-> fetched.hasMediaQueries,
                       hasResponsiveTables |-> fetched.hasResponsiveTables]]

Issues(high, medium, low) == [ok |-> TRUE, high |-> high, medium |-> medium, low |-> low]

\* checkGrammar
checkGrammar(text, label, reply) ==
    IF text = <<>> \/ Len(Trim(text)) < 20
    THEN [summary |-> [total |-> 0, status |-> "PASS"], label |-> label]
    ELSE IF ~ reply.ok
    THEN [summary |-> [total |-> 0, status |-> "SKIPPED", error |-> reply.message],
          label |-> label]
    ELSE [summary |-> [total |-> reply.high + reply.medium + reply.low,
                       high |-> reply.high, medium |-> reply.medium, low |-> reply.low,
                       status |-> IF reply.high > 0 THEN "FAIL"
                                  ELSE IF reply.medium > 0 THEN "WARNING" ELSE "PASS"],
          label |-> label]

\* lines 906-916: the handler's grammarCheck
GrammarOfBoth(docGrammar, emailGrammar) ==
    [document |-> docGrammar, email |-> emailGrammar,
     totalIssues |-> docGrammar.summary.total + emailGrammar.summary.total]

ResponsiveFetches ==
    {PageTraits(TRUE, TRUE, FALSE), PageTraits(FALSE, FALSE, TRUE), AuxFailure(AuxTimeout)}
GrammarReplies == {Issues(1, 0, 2), AuxFailure(AuxServiceError)}

-----------------------------------------------------------------------------
(* formatResultJSON                                                         *)

\* JavaScript values as far as formatResultJSON reads them
JsNumber(n) == [type |-> "number", value |-> n]
JsUndefined == [type |-> "undefined", value |-> 0]
JsArray(a) == [type |-> "array", value |-> Len(a)]
\* v.length: a Number has no length property
LengthOf(v) == IF v.type = "array" THEN JsNumber(v.value) ELSE JsUndefined
\* v > n: false when v is undefined
GreaterThan(v, n) == v.type = "number" /\ v.value > n

\* data.textComparison.summary.notFound.length > 0; summary.notFound is the
\* count compareTextDetailed stores (line 491)
hasTextIssues(data) == GreaterThan(LengthOf(JsNumber(data.textComparison.summary.notFound)), 0)
hasMissingLinks(data) == GreaterThan(LengthOf(JsArray(data.missingDocLinks)), 0)
hasAltIssues(data) == GreaterThan(JsNumber(data.imageAltCheck.summary.missingAlt), 0)

\* faulty variant: a check that could not run fails the report
formatResultJSONCountingAux(data) ==
    [overallStatus |-> IF \/ hasTextIssues(data) \/ hasMissingLinks(data)
                          \/ hasAltIssues(data)
                          \/ data.responsive = "Unable to check"
                          \/ data.grammarCheck.document.summary.status = "SKIPPED"
                          \/ data.grammarCheck.email.summary.status = "SKIPPED"
                       THEN "FAIL" ELSE "PASS",
     textSummary |-> data.textComparison.summary,
     linkSummary |-> [totalLinks |-> Len(data.linkReport),
                      foundInEmail |-> Cardinality({j \in 1..Len(data.linkReport) :
                                              data.linkReport[j].foundInEmail = "YES"}),
                      missing |-> Len(data.missingDocLinks)],
     imageSummary |-> data.imageAltCheck.summary,
     grammarCheck |-> data.grammarCheck,
     responsive |-> data.responsive,
     responsiveDetails |-> data.responsiveDetails]

formatResultJSON(data) ==
    [overallStatus |-> IF hasTextIssues(data) \/ hasMissingLinks(data) \/ hasAltIssues(data)
                       THEN "FAIL" ELSE "PASS",
     textSummary |-> data.textComparison.summary,
     linkSummary |-> [totalLinks |-> Len(data.linkReport),
                      foundInEmail |-> Cardinality({j \in 1..Len(data.linkReport) :
                                              data.linkReport[j].foundInEmail = "YES"}),
                      missing |-> Len(data.missingDocLinks)],
     imageSummary |-> data.imageAltCheck.summary,
     grammarCheck |-> data.grammarCheck,
     responsive |-> data.responsive,
     responsiveDetails |-> data.responsiveDetails]

-----------------------------------------------------------------------------
(* The report pipeline of the /qa handler (lines 880-933) on bounded inputs *)

TXT_SIGNUP == <<"S", "i", "g", "n", " ", "u", "p", " ", "t", "o", "d", "a", "y", " ", "f", "o", "r", " ", "2", "0", "%", " ", "o", "f", "f">>
TXT_UNRELATED == <<"T", "o", "t", "a", "l", "l", "y", " ", "u", "n", "r", "e", "l", "a", "t", "e", "d", " ", "w", "o", "r", "d", "s">>
TXT_WELCOME == <<"W", "e", "l", "c", "o", "m", "e", " ", "t", "o", " ", "o", "u", "r", " ", "s", "t", "o", "r", "e">>
PARA_SIGNUP == <<"S", "i", "g", "n", " ", "u", "p", " ", "t", "o", "d", "a", "y">>
PARA_OFFER == <<"f", "o", "r", " ", "2", "0", "%", " ", "o", "f", "f", " ", "y", "o", "u", "r", " ", "o", "r", "d", "e", "r">>
PARA_SIGNUP_FULL == <<"S", "i", "g", "n", " ", "u", "p", " ", "t", "o", "d", "a", "y", " ", "f", "o", "r", " ", "2", "0", "%", " ", "o", "f", "f", "!">>
TXT_TEN == <<"a", " ", "b", " ", "c", " ", "d", " ", "e", " ", "f", " ", "g", " ", "h", " ", "i", " ", "j">>
TXT_TEN_MORE == <<"k", " ", "l", " ", "m", " ", "n", " ", "o", " ", "p", " ", "q", " ", "r", " ", "s", " ", "t">>
PARA_NINE_OF_TEN == <<"a", " ", "b", " ", "c", " ", "d", " ", "e", " ", "f", " ", "g", " ", "h", " ", "i", " ", "z">>
PARA_SEVEN_OF_TEN == <<"k", " ", "l", " ", "m", " ", "n", " ", "o", " ", "p", " ", "q", " ", "x", " ", "y", " ", "z">>

\* docText as mammoth's extractRawText gives it
DocTexts ==
    { TXT_SIGNUP,
      <<"S", "u", "b", "j", "e", "c", "t", ":", " ", "B", "i", "g", " ", "s", "a", "l", "e", "\n", "\n">> \o TXT_SIGNUP \o <<"\n", "s", "h", "o", "r", "t">>,
      TXT_SIGNUP \o <<"\n", "\n", "\n">> \o TXT_UNRELATED,
      <<"P", "r", "e", "h", "e", "a", "d", "e", "r", " ", "t", "e", "x", "t", " ", "h", "e", "r", "e", "\n">> \o TXT_UNRELATED,
      TXT_WELCOME \o <<"\n", "\n">> \o TXT_SIGNUP,
      TXT_TEN \o <<"\n">> \o TXT_TEN_MORE }

LinkA == Href("https://a.com", "/x", "")
LinkAUtm == Href("https://a.com", "/x", "?utm_source=y")
LinkB == Href("https://a.com", "/b", "?id=1")
LinkB2 == Href("https://a.com", "/b", "?id=2")
LinkRel == RawHref("/contact", "?ref=mail")

DocLinkLists ==
    { <<>>,
      <<[text |-> "shop", href |-> LinkAUtm]>>,
      <<[text |-> "shop", href |-> LinkA], [text |-> "more", href |-> LinkB]>>,
      <<[text |-> "contact", href |-> LinkRel]>> }

EmailLinkLists ==
    { <<>>,
      <<[text |-> "Shop now", href |-> LinkA]>>,
      <<[text |-> "Shop now", href |-> LinkAUtm], [text |-> "Contact", href |-> LinkRel],
        [text |-> "More", href |-> LinkB2]>> }

ImageLists ==
    { <<>>,
      <<Img(<<"h", "e", "r", "o", ".", "p", "n", "g">>, TRUE, <<"S", "p", "r", "i", "n", "g", " ", "s", "a", "l", "e", " ", "h", "e", "r", "o">>)>>,
      <<Img(<<"t", "r", "a", "c", "k", "i", "n", "g", "-", "p", "i", "x", "e", "l", ".", "g", "i", "f">>, FALSE, <<>>)>>,
      <<Img(<<"t", "r", "a", "c", "k", "i", "n", "g", "-", "p", "i", "x", "e", "l", ".", "g", "i", "f">>, TRUE, <<>>),
        Img(<<"l", "o", "g", "o", ".", "p", "n", "g">>, TRUE, <<"l", "o", "g", "o">>)>>,
      <<Img(<<"h", "e", "r", "o", ".", "p", "n", "g">>, TRUE, <<"S", "p", "r", "i", "n", "g", " ", "s", "a", "l", "e", " ", "h", "e", "r", "o">>),
        Img(<<"t", "e", "a", "m", ".", "j", "p", "g">>, FALSE, <<>>),
        Img(<<"t", "e", "a", "m", ".", "j", "p", "g">>, TRUE, <<>>)>> }

\* what _fetchEmailContent extracts from a page: flat text and paragraphs
PageTexts ==
    { [text |-> PARA_SIGNUP \o <<" ">> \o PARA_OFFER,
       emailParagraphs |-> <<PARA_SIGNUP, PARA_OFFER>>],
      [text |-> PARA_SIGNUP_FULL \o <<" ">> \o TXT_WELCOME,
       emailParagraphs |-> <<PARA_SIGNUP_FULL, TXT_WELCOME>>],
      [text |-> PARA_NINE_OF_TEN \o <<" ">> \o PARA_SEVEN_OF_TEN,
       emailParagraphs |-> <<PARA_NINE_OF_TEN, PARA_SEVEN_OF_TEN>>],
      [text |-> TXT_SIGNUP,
       emailParagraphs |-> <<<<"S", "i", "g", "n", " ", "u", "p">>,
                             <<"t", "o", "d", "a", "y", " ", "f", "o", "r">>,
                             <<"2", "0", "%", " ", "o", "f", "f">>>>],
      [text |-> <<>>, emailParagraphs |-> <<>>] }

NotYet == <<>>

\* a request with file and URL in the handler's try block
Accepted ==
    /\ req = [file |-> TRUE, emailUrl |-> TRUE]
    /\ onDisk = TRUE
    /\ res = NotYet
    /\ err = NotYet
    /\ warned = FALSE

NothingCompared ==
    /\ textComparison = NotYet
    /\ linkResult = NotYet
    /\ imageAltCheck = NotYet
    /\ responsive = NotYet
    /\ grammarCheck = NotYet
    /\ report = NotYet

\* the handler after extractDoc and getEmailContent have returned
ReportInit ==
    /\ ConcIdle
    /\ rpc = "input"
    /\ doc \in [text : DocTexts, links : DocLinkLists]
    /\ page \in { [text |-> t.text, emailParagraphs |-> t.emailParagraphs,
                   links |-> l, images |-> m] :
                  t \in PageTexts, l \in EmailLinkLists, m \in ImageLists }
    /\ NothingCompared
    /\ Accepted
    /\ fetchAttempts = 1
    /\ FetchIdle
    /\ TextIdle

\* line 881
CompareText ==
    /\ rpc = "input"
    /\ textComparison' = compareTextDetailed(doc.text, page.text, page.emailParagraphs)
    /\ rpc' = "text"
    /\ UNCHANGED <<doc, page, linkResult, imageAltCheck, responsive, grammarCheck, report>>
    /\ UNCHANGED <<fetchVars, qaVars, textVars, concVars>>

\* lines 883-886
CompareLinks ==
    /\ rpc = "text"
    /\ linkResult' = compareLinks(doc.links, page.links)
    /\ rpc' = "links"
    /\ UNCHANGED <<doc, page, textComparison, imageAltCheck, responsive, grammarCheck,
                   report>>
    /\ UNCHANGED <<fetchVars, qaVars, textVars, concVars>>

\* line 889
CheckImages ==
    /\ rpc = "links"
    /\ imageAltCheck' = checkImageAltTags(page.images)
    /\ rpc' = "images"
    /\ UNCHANGED <<doc, page, textComparison, linkResult, responsive, grammarCheck, report>>
    /\ UNCHANGED <<fetchVars, qaVars, textVars, concVars>>

\* lines 892-903: checkResponsive catches its own errors, so the handler's
\* catch around the call is never entered
CheckResponsive(fetched) ==
    /\ rpc = "images"
    /\ responsive' = checkResponsive(fetched)
    /\ rpc' = "responsive"
    /\ UNCHANGED <<doc, page, textComparison, linkResult, imageAltCheck, grammarCheck,
                   report>>
    /\ UNCHANGED <<fetchVars, qaVars, textVars, concVars>>

\* lines 905-920: both checkGrammar calls resolve, so Promise.all does too
CheckGrammar(docReply, emailReply) ==
    /\ rpc = "responsive"
    /\ grammarCheck' = GrammarOfBoth(checkGrammar(doc.text, "Document", docReply),
                                     checkGrammar(page.text, "Email", emailReply))
    /\ rpc' = "grammar"
    /\ UNCHANGED <<doc, page, textComparison, linkResult, imageAltCheck, responsive,
                   report>>
    /\ UNCHANGED <<fetchVars, qaVars, textVars, concVars>>

\* lines 923-933
FormatResult ==
    /\ rpc = "grammar"
    /\ report' = formatResultJSON([textComparison |-> textComparison,
                                   linkReport |-> linkResult.report,
                                   missingDocLinks |-> linkResult.missing,
                                   imageAltCheck |-> imageAltCheck,
                                   grammarCheck |-> grammarCheck,
                                   responsive |-> responsive.responsive,
                                   responsiveDetails |-> responsive.details])
    /\ rpc' = "reported"
    /\ UNCHANGED <<doc, page, textComparison, linkResult, imageAltCheck, responsive,
                   grammarCheck>>
    /\ UNCHANGED <<fetchVars, qaVars, textVars, concVars>>

ReportNext ==
    \/ CompareText
    \/ CompareLinks
    \/ CheckImages
    \/ \E fetched \in ResponsiveFetches : CheckResponsive(fetched)
    \/ \E docReply \in GrammarReplies, emailReply \in GrammarReplies :
          CheckGrammar(docReply, emailReply)
    \/ FormatResult

ReportSpec == ReportInit /\ [][ReportNext]_vars

-----------------------------------------------------------------------------
(* The /qa handler (lines 861-954). req tells whether multer stored a file  *)
(* and whether the body has a non-empty emailUrl; onDisk tells whether the   *)
(* uploaded file exists in uploads/. The servers of this specification       *)
(* answer without redirects.                                                 *)

Response(status, body) == [status |-> status, body |-> body]

\* faulty variant: the file is not looked at
MissingInputUrlOnly(request) == ~ request.emailUrl

\* if (!emailUrl || !file)
MissingInput(request) == ~ request.emailUrl \/ ~ request.file

\* mammoth rejects a file that is no docx archive
DocParseError == Err("", 0, <<"Can't", "find", "end", "of", "central", "directory">>)
\* file.path when file is undefined
NoFileError == Err("", 0, <<"Cannot", "read", "properties", "of", "undefined">>)

\* catch (err): res.status(500).json({ error, details: err.message })
ErrorResponse(error) ==
    Response(500, [error |-> "QA processing failed", details |-> error.msg])

\* faulty variant: the file is never removed
UnlinkKeeps(exists, fails) == exists

\* if (fs.existsSync(path)) fs.unlinkSync(path): whether the file exists
\* afterwards; fails tells that unlinkSync throws
Unlink(exists, fails) == exists /\ fails

QaDocs == { [text |-> TXT_SIGNUP, links |-> <<>>],
            [text |-> TXT_UNRELATED, links |-> <<>>] }
QaPages == { [text |-> PARA_SIGNUP_FULL, emailParagraphs |-> <<PARA_SIGNUP_FULL>>,
              links |-> <<>>, images |-> <<>>],
             [text |-> <<>>, emailParagraphs |-> <<>>, links |-> <<>>, images |-> <<>>] }
QaFailures == {AxiosTimeout, HangUp, DnsNotFound, HttpError(404), HttpError(503)}
QaResponses == {Resp(200, None, PageBody), Resp(200, None, ObjectBody)}

QaInit ==
    /\ ConcIdle
    /\ rpc = "validate"
    /\ req \in [file : BOOLEAN, emailUrl : BOOLEAN]
    /\ onDisk = req.file
    /\ res = NotYet
    /\ err = NotYet
    /\ fetchAttempts = 0
    /\ warned = FALSE
    /\ doc = NotYet
    /\ page = NotYet
    /\ NothingCompared
    /\ FetchIdle
    /\ TextIdle

\* lines 864-868
Validate ==
    /\ rpc = "validate"
    /\ IF MissingInput(req)
       THEN res' = Response(400, [error |-> "Missing input"]) /\ rpc' = "finally"
       ELSE res' = res /\ rpc' = "extractDoc"
    /\ UNCHANGED <<req, onDisk, err, fetchAttempts, warned>>
    /\ UNCHANGED <<doc, page, textComparison, linkResult, imageAltCheck, responsive,
                   grammarCheck, report>>
    /\ UNCHANGED <<fetchVars, textVars, concVars>>

\* line 873: extractDoc(file.path) returns
ExtractDoc(extracted) ==
    /\ rpc = "extractDoc"
    /\ req.file
    /\ doc' = extracted
    /\ rpc' = "fetch"
    /\ UNCHANGED <<page, textComparison, linkResult, imageAltCheck, responsive,
                   grammarCheck, report>>
    /\ UNCHANGED <<fetchVars, qaVars, textVars, concVars>>

\* line 873: file.path or mammoth throws
ExtractDocFails ==
    /\ rpc = "extractDoc"
    /\ err' = IF req.file THEN DocParseError ELSE NoFileError
    /\ rpc' = "catch"
    /\ UNCHANGED <<req, onDisk, res, fetchAttempts, warned>>
    /\ UNCHANGED <<doc, page, textComparison, linkResult, imageAltCheck, responsive,
                   grammarCheck, report>>
    /\ UNCHANGED <<fetchVars, textVars, concVars>>

\* line 876: getEmailContent(emailUrl) is called, withRetry starts attempt 1
CallGetEmailContent ==
    /\ rpc = "fetch"
    /\ url' = StartUrl
    /\ attempt' = 1
    /\ currentUrl' = StartUrl
    /\ pc' = "loop"
    /\ rpc' = "fetching"
    /\ UNCHANGED <<i, cookies, response, lastError, delays, result, hops, sent,
                   received, causes>>
    /\ UNCHANGED <<doc, page, textComparison, linkResult, imageAltCheck, responsive,
                   grammarCheck, report>>
    /\ UNCHANGED <<qaVars, textVars, concVars>>

\* line 876: the await yields the content of the page
GetEmailContentReturns(content) ==
    /\ rpc = "fetching"
    /\ pc = "returned"
    /\ page' = content
    /\ fetchAttempts' = attempt
    /\ rpc' = "input"
    /\ UNCHANGED <<req, onDisk, res, err, warned>>
    /\ UNCHANGED <<doc, textComparison, linkResult, imageAltCheck, responsive,
                   grammarCheck, report>>
    /\ UNCHANGED <<fetchVars, textVars, concVars>>

\* line 876: the await throws what withRetry threw
GetEmailContentThrows ==
    /\ rpc = "fetching"
    /\ pc = "thrown"
    /\ err' = lastError
    /\ fetchAttempts' = attempt
    /\ rpc' = "catch"
    /\ UNCHANGED <<req, onDisk, res, warned>>
    /\ UNCHANGED <<doc, page, textComparison, linkResult, imageAltCheck, responsive,
                   grammarCheck, report>>
    /\ UNCHANGED <<fetchVars, textVars, concVars>>

\* line 936: res.json(result)
Respond ==
    /\ rpc = "reported"
    /\ res' = Response(200, report)
    /\ rpc' = "finally"
    /\ UNCHANGED <<req, onDisk, err, fetchAttempts, warned>>
    /\ UNCHANGED <<doc, page, textComparison, linkResult, imageAltCheck, responsive,
                   grammarCheck, report>>
    /\ UNCHANGED <<fetchVars, textVars, concVars>>

\* lines 937-940
Catch ==
    /\ rpc = "catch"
    /\ res' = ErrorResponse(err)
    /\ rpc' = "finally"
    /\ UNCHANGED <<req, onDisk, err, fetchAttempts, warned>>
    /\ UNCHANGED <<doc, page, textComparison, linkResult, imageAltCheck, responsive,
                   grammarCheck, report>>
    /\ UNCHANGED <<fetchVars, textVars, concVars>>

\* lines 941-953: finally; unlinkFails tells that fs.unlinkSync throws,
\* which the inner catch answers with console.warn
Cleanup(unlinkFails) ==
    /\ rpc = "finally"
    /\ unlinkFails => req.file /\ onDisk
    /\ IF req.file
       THEN /\ onDisk' = Unlink(onDisk, unlinkFails)
            /\ warned' = unlinkFails
       ELSE UNCHANGED <<onDisk, warned>>
    /\ rpc' = "done"
    /\ UNCHANGED <<req, res, err, fetchAttempts>>
    /\ UNCHANGED <<doc, page, textComparison, linkResult, imageAltCheck, responsive,
                   grammarCheck, report>>
    /\ UNCHANGED <<fetchVars, textVars, concVars>>

QaNext ==
    \/ Validate
    \/ \E extracted \in QaDocs : ExtractDoc(extracted)
    \/ ExtractDocFails
    \/ CallGetEmailContent
    \/ \E resp \in QaResponses : StopAtResponse(resp, <<>>)
    \/ \E e \in QaFailures : RequestFails(e)
    \/ ExtractContent
    \/ ExtractFails
    \/ RetryThrow
    \/ RetryBackoff
    \/ BackoffElapsed
    \/ \E content \in QaPages : GetEmailContentReturns(content)
    \/ GetEmailContentThrows
    \/ CompareText
    \/ CompareLinks
    \/ CheckImages
    \/ \E fetched \in ResponsiveFetches : CheckResponsive(fetched)
    \/ \E docReply \in GrammarReplies, emailReply \in GrammarReplies :
          CheckGrammar(docReply, emailReply)
    \/ FormatResult
    \/ Respond
    \/ Catch
    \/ \E unlinkFails \in BOOLEAN : Cleanup(unlinkFails)

QaSpec == QaInit /\ [][QaNext]_vars

-----------------------------------------------------------------------------
(* normalize and getSimilarityScore applied to bounded texts                *)

\* longest text made of TextChars that normalize is applied to
MaxTextLen == 4
\* most words of a text that is scored
MaxWords == 3

TextChars == {"a", "B", " ", "-", "(", ")", "<", ">"}
TextsOfLength(n) == [1..n -> TextChars]
NormalizeSamples ==
    { <<"a", " ", "-", " ", "b">>,
      <<"a", " ", "(", "b", ")", " ", "c">>,
      <<"a", " ", "[", "B", "]", " ", "c">>,
      <<"x", " ", "<", "b", ">", " ", "y">>,
      <<"a", " ", "<", " ", "b", " ", ">", " ", "c">> }
NormalizeInputs == UNION {TextsOfLength(n) : n \in 0..MaxTextLen} \cup NormalizeSamples

NormalizeInit ==
    /\ ConcIdle
    /\ tpc = "text"
    /\ argA \in NormalizeInputs
    /\ argB = <<>>
    /\ out = <<>>
    /\ FetchIdle
    /\ ReportIdle
    /\ QaIdle

\* normalize(text), and normalize applied to what it returned
Normalize ==
    /\ tpc = "text"
    /\ out' = [once |-> normalize(argA), twice |-> normalize(normalize(argA))]
    /\ tpc' = "normalized"
    /\ UNCHANGED <<argA, argB>>
    /\ UNCHANGED <<fetchVars, reportVars, qaVars, concVars>>

NormalizeNext == Normalize

NormalizeSpec == NormalizeInit /\ [][NormalizeNext]_vars

Words == {"x", "y", "z"}
RECURSIVE JoinWords(_)
JoinWords(ws) ==
    IF ws = <<>> THEN <<>>
    ELSE IF Len(ws) = 1 THEN <<ws[1]>>
    ELSE <<ws[1], " ">> \o JoinWords(Tail(ws))
ScoreTexts ==
    {JoinWords(ws) : ws \in UNION {[1..n -> Words] : n \in 0..MaxWords}}
        \cup { <<"-">>, <<"X", " ", "x">>, <<"(", "x", ")", " ", "y">> }

ScoreInit ==
    /\ ConcIdle
    /\ tpc = "pair"
    /\ argA \in ScoreTexts
    /\ argB \in ScoreTexts
    /\ out = <<>>
    /\ FetchIdle
    /\ ReportIdle
    /\ QaIdle

\* getSimilarityScore on the pair, on the swapped pair and on (A, A)
Score ==
    /\ tpc = "pair"
    /\ out' = [ab |-> getSimilarityScore(argA, argB),
               ba |-> getSimilarityScore(argB, argA),
               aa |-> getSimilarityScore(argA, argA)]
    /\ tpc' = "scored"
    /\ UNCHANGED <<argA, argB>>
    /\ UNCHANGED <<fetchVars, reportVars, qaVars, concVars>>

ScoreNext == Score

ScoreSpec == ScoreInit /\ [][ScoreNext]_vars

-----------------------------------------------------------------------------
(* findBestEmailSegment applied to one block, the paragraphs of a page and  *)
(* its flat text                                                            *)

BLK_WELCOME == <<"W", "e", "l", "c", "o", "m", "e", " ", "a", "b", "o", "a", "r", "d", " ", "v", "a", "l", "u", "e", "d", " ", "m", "e", "m", "b", "e", "r">>
BLK_MEMBER == <<"V", "a", "l", "u", "e", "d", " ", "m", "e", "m", "b", "e", "r", ",", " ", "w", "e", "l", "c", "o", "m", "e">>
BLK_UNKNOWN == <<"N", "o", "t", "h", "i", "n", "g", " ", "m", "a", "t", "c", "h", "e", "s", " ", "h", "e", "r", "e">>
BLK_RETURNS == <<"F", "r", "e", "e", " ", "r", "e", "t", "u", "r", "n", "s", " ", "a", "l", "w", "a", "y", "s">>
SEG_EVERYONE == <<"W", "e", "l", "c", "o", "m", "e", " ", "e", "v", "e", "r", "y", "o", "n", "e">>
SEG_ABOARD == <<"w", "e", "l", "c", "o", "m", "e", " ", "a", "b", "o", "a", "r", "d">>
SEG_VALUED == <<"v", "a", "l", "u", "e", "d", " ", "m", "e", "m", "b", "e", "r">>
SEG_REVERSED == <<"m", "e", "m", "b", "e", "r", " ", "v", "a", "l", "u", "e", "d", " ", "a", "b", "o", "a", "r", "d", " ", "w", "e", "l", "c", "o", "m", "e">>
SEG_ABOARD_REV == <<"a", "b", "o", "a", "r", "d", " ", "w", "e", "l", "c", "o", "m", "e">>
SEG_SEASON == <<"S", "h", "o", "p", " ", "o", "u", "r", " ", "n", "e", "w", " ", "s", "e", "a", "s", "o", "n">>
SEG_RETURNS == <<"F", "r", "e", "e", " ", "r", "e", "t", "u", "r", "n", "s", " ", "a", "l", "w", "a", "y", "s">>
SEG_ABOARD_FIRST == <<"A", "b", "o", "a", "r", "d", ",", " ", "w", "e", "l", "c", "o", "m", "e", "!">>
SEG_WELCOME_FIRST == <<"W", "e", "l", "c", "o", "m", "e", " ", "a", "b", "o", "a", "r", "d", ".">>
FLAT_LEAD == <<"T", "h", "i", "s", " ", "i", "s", " ", "o", "u", "r", " ", "n", "e", "w", "s", "l", "e", "t", "t", "e", "r", " ", "f", "o", "r", " ", "y", "o", "u", ":">>
FLAT_TAIL == <<"W", "e", "l", "c", "o", "m", "e", " ", "a", "b", "o", "a", "r", "d", " ", "v", "a", "l", "u", "e", "d", " ", "m", "e", "m", "b", "e", "r", " ", "o", "f", " ", "t", "h", "e", " ", "c", "l", "u", "b", " ", "t", "o", "d", "a", "y", " ", "a", "n", "d", " ", "a", "l", "w", "a", "y", "s">>

\* doc blocks as compareTextDetailed passes them: trimmed, longer than 10
SegmentBlocks == {BLK_WELCOME, BLK_MEMBER, BLK_UNKNOWN, BLK_RETURNS}
SegmentParagraphs ==
    { <<>>,
      <<SEG_EVERYONE>>,
      <<SEG_ABOARD, SEG_VALUED, SEG_REVERSED>>,
      <<SEG_ABOARD, SEG_VALUED, SEG_ABOARD_REV>>,
      <<SEG_SEASON, SEG_RETURNS>>,
      <<SEG_ABOARD_FIRST, SEG_WELCOME_FIRST>> }
\* text of the page outside the paragraph elements, before and after them
SegmentLeads == {<<>>, FLAT_LEAD}
SegmentTails == {<<>>, FLAT_TAIL, BLK_RETURNS}

\* $('body').text() with white space collapsed: the texts in document order
RECURSIVE BodyText(_)
BodyText(parts) ==
    IF parts = <<>> THEN <<>>
    ELSE IF Head(parts) = <<>> THEN BodyText(Tail(parts))
    ELSE IF BodyText(Tail(parts)) = <<>> THEN Head(parts)
    ELSE Head(parts) \o <<" ">> \o BodyText(Tail(parts))

\* the paragraphs of a page and its flat text, which holds them
SegmentPages ==
    {[emailParagraphs |-> ps, emailText |-> BodyText(<<lead>> \o ps \o <<tail>>)] :
        ps \in SegmentParagraphs, lead \in SegmentLeads, tail \in SegmentTails}

SegmentInit ==
    /\ ConcIdle
    /\ tpc = "block"
    /\ argA \in SegmentBlocks
    /\ argB \in SegmentPages
    /\ out = <<>>
    /\ FetchIdle
    /\ ReportIdle
    /\ QaIdle

\* findBestEmailSegment on the block, with the best of Strategy 1 and the
\* window of Strategy 2 kept for observation, and the verdict the caller
\* gives the block
FindSegment ==
    /\ tpc = "block"
    /\ LET observe(strategy1) ==
               [strategy1 |-> strategy1,
                window |-> FallbackWindow(argA, argB.emailText, strategy1),
                best |-> findBestEmailSegment(argA, argB.emailParagraphs, argB.emailText),
                status |-> BlockResult(1, argA, argB.emailParagraphs, argB.emailText).status]
       IN out' = Once1(observe, BestCandidate(argA, Candidates(argB.emailParagraphs),
                                              NoSegment))
    /\ tpc' = "found"
    /\ UNCHANGED <<argA, argB>>
    /\ UNCHANGED <<fetchVars, reportVars, qaVars, concVars>>

SegmentNext == FindSegment

SegmentSpec == SegmentInit /\ [][SegmentNext]_vars

-----------------------------------------------------------------------------
(* The paragraph deduplication of _fetchEmailContent (lines 255-271)        *)

\* paragraphs.forEach(p => ...) continued from the retained emailParagraphs
RECURSIVE Deduplicate(_, _)
Deduplicate(paragraphs, emailParagraphs) ==
    LET visit(p, kept) ==
            LET isDuplicate == \E j \in 1..Len(kept) :
                                   StrIncludes(kept[j], p) \/ StrIncludes(p, kept[j])
                shorter == {j \in 1..Len(kept) :
                                StrIncludes(p, kept[j]) /\ Len(p) > Len(kept[j])}
                shorterIdx == CHOOSE j \in shorter : \A o \in shorter : j <= o
            IN IF ~ isDuplicate THEN Append(kept, p)
               ELSE IF shorter # {} THEN [kept EXCEPT ![shorterIdx] = p]
               ELSE kept
    IN IF paragraphs = <<>> THEN emailParagraphs
       ELSE Deduplicate(Tail(paragraphs), Once2(visit, Head(paragraphs), emailParagraphs))

PARA_BOTH == PARA_SIGNUP \o <<" ">> \o PARA_OFFER
\* texts of paragraph elements: trimmed and longer than 10 characters
ParagraphTexts == {PARA_SIGNUP, PARA_OFFER, PARA_BOTH, PARA_SIGNUP_FULL, SEG_SEASON}

DedupInit ==
    /\ ConcIdle
    /\ tpc = "extracted"
    /\ argA \in UNION {[1..n -> ParagraphTexts] : n \in 0..MaxParagraphs}
    /\ argB = <<>>
    /\ out = <<>>
    /\ FetchIdle
    /\ ReportIdle
    /\ QaIdle

DeduplicateParagraphs ==
    /\ tpc = "extracted"
    /\ out' = Deduplicate(argA, <<>>)
    /\ tpc' = "deduplicated"
    /\ UNCHANGED <<argA, argB>>
    /\ UNCHANGED <<fetchVars, reportVars, qaVars, concVars>>

DedupNext == DeduplicateParagraphs

DedupSpec == DedupInit /\ [][DedupNext]_vars

-----------------------------------------------------------------------------
(* Claims about the report, checked under ReportSpec                        *)

\* the facts the overall status is said to depend on
SomeBlockNotFound == Len(textComparison.notFound) > 0
SomeLinkMissing == Len(linkResult.missing) > 0
SomeImageLacksAlt == \E j \in 1..Len(page.images) : ~ page.images[j].alt.has

\* C1: the report's overallStatus is FAIL exactly when at least one reference
\* block is classified NOT FOUND, or at least one document link is missing
\* from the page, or at least one image lacks the alt attribute; in every
\* other case it is PASS.
C1_OverallStatus ==
    rpc = "reported"
        => /\ report.overallStatus \in {"FAIL", "PASS"}
           /\ report.overallStatus = "FAIL"
                  <=> (SomeBlockNotFound \/ SomeLinkMissing \/ SomeImageLacksAlt)

\* the blocks the splitter keeps for the document under comparison
KeptBlocks == DocBlocks(doc.text)
VerdictOf ==
    [matched |-> "FULL MATCH", partialMatch |-> "PARTIAL MATCH", notFound |-> "NOT FOUND"]
\* the places of the verdict buckets that hold kept block j
VerdictEntries(j) ==
    UNION {{<<b, k>> : k \in {k \in 1..Len(textComparison[b]) :
                                  /\ textComparison[b][k].index = j
                                  /\ textComparison[b][k].originalText = KeptBlocks[j]
                                  /\ textComparison[b][k].status = VerdictOf[b]}} :
           b \in DOMAIN VerdictOf}
MetadataEntries(j) ==
    {k \in 1..Len(textComparison.metadata) :
        /\ textComparison.metadata[k].index = j
        /\ textComparison.metadata[k].content = KeptBlocks[j]}
\* every entry of the buckets stands for a kept block
NoStrayEntries ==
    Len(textComparison.matched) + Len(textComparison.partialMatch)
        + Len(textComparison.notFound) + Len(textComparison.metadata)
      = Cardinality(UNION {VerdictEntries(j) : j \in 1..Len(KeptBlocks)})
        + Cardinality(UNION {{<<j, k>> : k \in MetadataEntries(j)} :
                                 j \in 1..Len(KeptBlocks)})

\* C2 as stated: every reference block kept by the block splitter is in
\* exactly one of the verdict buckets matched, partialMatch, notFound; no
\* block is in two buckets and none is left without a verdict.
C2_EveryBlockHasOneVerdict ==
    rpc # "input"
        => \A j \in 1..Len(KeptBlocks) : Cardinality(VerdictEntries(j)) = 1

\* C2, amended: every kept block that is not a subject or preheader line is in
\* exactly one of the verdict buckets, under the verdict of that bucket; a
\* kept subject or preheader line is only in the metadata bucket, once, and
\* has no verdict; the buckets hold nothing else.
C2_BlocksPartitioned ==
    rpc # "input"
        => /\ \A j \in 1..Len(KeptBlocks) :
                  IF IsMetadata(KeptBlocks[j])
                  THEN /\ Cardinality(VerdictEntries(j)) = 0
                       /\ Cardinality(MetadataEntries(j)) = 1
                  ELSE /\ Cardinality(VerdictEntries(j)) = 1
                       /\ Cardinality(MetadataEntries(j)) = 0
           /\ NoStrayEntries

\* a document with a subject line and a block that matches in full
C2_Witness ==
    /\ rpc = "text"
    /\ Len(KeptBlocks) = 2
    /\ IsMetadata(KeptBlocks[1])
    /\ Cardinality(MetadataEntries(1)) = 1
    /\ VerdictEntries(2) = {<<"matched", 1>>}

-----------------------------------------------------------------------------
(* Claims about getEmailContent, checked under FetchSpec                    *)

\* the error raised inside fn by the attempt that failed last
LastCause == causes[Len(causes)]
\* the current attempt has failed (its error is caught or already rethrown)
AttemptFailed == Len(causes) = attempt /\ attempt <= 3

\* C3: an attempt that fails with a connection reset, a DNS resolution failure
\* or a remote 5xx status while fewer than 3 attempts have been made is
\* followed by a backoff delay and another attempt: getEmailContent never
\* rethrows such a failure before the third attempt.
C3_TransientFailureIsRetried ==
    (pc = "thrown" /\ attempt < 3)
        => ~ (IsConnReset(LastCause) \/ IsDnsFailure(LastCause) \/ Is5xx(LastCause))

\* C4: when an attempt fails with a 4xx response or a parse error, no backoff
\* delay is scheduled for it and no further attempt starts: the failure is
\* rethrown at once; as the first attempt's failure it leaves exactly one
\* attempt and no delay at all.
C4_NonTransientFailsAtOnce ==
    (AttemptFailed /\ (Is4xx(LastCause) \/ IsParseError(LastCause)))
        => /\ pc \in {"caught", "thrown"}
           /\ Len(delays) = attempt - 1
           /\ (Len(causes) = 1 => attempt = 1 /\ delays = <<>>)

C4_Witness ==
    /\ pc = "thrown"
    /\ causes = <<HttpError(404)>>
    /\ attempt = 1
    /\ delays = <<>>

\* C5: a fetch whose first two attempts failed with a timeout and whose third
\* attempt succeeded returns what the third attempt extracted, and exactly two
\* backoff delays were observed, the second strictly greater than the first.
C5_ThirdAttemptSucceeds ==
    (/\ pc = "returned"
     /\ Len(causes) = 2
     /\ IsTimeout(causes[1])
     /\ IsTimeout(causes[2]))
        => /\ attempt = 3
           /\ result.html = response.data.id
           /\ Len(delays) = 2
           /\ delays[2] > delays[1]

C5_Witness ==
    /\ pc = "returned"
    /\ causes = <<AxiosTimeout, AxiosTimeout>>
    /\ attempt = 3
    /\ result.html = "page"
    /\ delays = <<2000, 4000>>

\* C6: getEmailContent never makes more than 3 attempts; when all 3 have
\* failed it ends by throwing the error the third attempt raised, with exactly
\* two backoff delays observed and none after the final attempt.
C6_ExhaustedRetriesSurfaceLastError ==
    /\ attempt <= 3
    /\ Len(causes) <= 3
    /\ Len(delays) <= 2
    /\ Len(causes) = 3
        => /\ pc \in {"caught", "thrown"}
           /\ lastError = WrapFetchError(causes[3])
           /\ Len(delays) = 2

C6_Witness ==
    /\ pc = "thrown"
    /\ causes = <<AxiosTimeout, HangUp, AxiosTimeout>>
    /\ lastError.msg = <<"Failed", "to", "fetch", "email", "content:",
                         "timeout", "of", "45000ms", "exceeded">>
    /\ delays = <<2000, 4000>>

\* the redirect loop of the current attempt ran out of iterations: 10 requests
\* were made and the 10th response was a redirect that was followed
HitHopLimit == hops = 10 /\ i = 10

\* C7: within one attempt at most 10 requests are issued; when all 10
\* responses are redirects the attempt does not fail for that: the 10th
\* response goes to extraction and its body is the html returned.
C7_HopLimit ==
    /\ hops <= 10
    /\ HitHopLimit
        => /\ response.status \in {301, 302, 303, 307, 308}
           /\ pc # "loop"
           /\ response.data.str => pc \in {"extract", "returned"}
           /\ pc = "returned" => result.html = response.data.id

C7_Witness ==
    /\ HitHopLimit
    /\ pc = "returned"
    /\ response = Resp(302, None, HrefBody)
    /\ result.html = "href"

\* the name=value segments a Cookie header value carries, in order
RECURSIVE CarriedPairs(_)
CarriedPairs(value) ==
    IF value = <<>> THEN <<>>
    ELSE IF Head(value) = "; " THEN CarriedPairs(Tail(value))
    ELSE <<Head(value)>> \o CarriedPairs(Tail(value))

\* C8: the Cookie header of every request carries, in arrival order, the
\* name=value segment of every Set-Cookie value received in the earlier hops
\* of the attempt: none is dropped, whether or not later hops set cookies.
C8_CookiesForwarded ==
    hops > 0
        => /\ Len(CarriedPairs(sent.cookie.value)) = Len(sent.seen)
           /\ \A j \in 1..Len(sent.seen) :
                  CarriedPairs(sent.cookie.value)[j] = Head(sent.seen[j])
           /\ sent.seen # <<>> => sent.cookie.present

\* three redirects each set a distinct cookie; the fourth request carries all
\* three, and the fourth response sets none
C8_Witness ==
    /\ hops = 4
    /\ pc = "loop"
    /\ received = <<CookieA, CookieB, CookieC>>
    /\ sent.seen = <<CookieA, CookieB, CookieC>>
    /\ sent.cookie.value = <<"a=1", "; ", "b=2", "; ", "c=3">>

\* the target the redirect rules name for a response: the Location header when
\* present, else the capture of the first pattern, in the fixed order, that
\* matches the (string) body
PatternOrder == <<"redirecturl", "winloc", "replace", "meta">>
MatchingPatterns(body) == {j \in 1..4 : body.str /\ body[PatternOrder[j]] # None}
FirstPattern(body) ==
    CHOOSE j \in MatchingPatterns(body) : \A l \in MatchingPatterns(body) : j <= l
RuleTarget(resp) ==
    IF resp.location # None THEN resp.location
    ELSE IF MatchingPatterns(resp.data) = {} THEN None
    ELSE resp.data[PatternOrder[FirstPattern(resp.data)]]

\* C9: after a response with status 301, 302, 303, 307 or 308 the next URL is
\* the Location header when present, else the target of the first matching
\* body pattern in the order redirecturl, window.location, location.replace,
\* meta refresh (resolved against the URL just requested).
C9_RedirectTargetOrder ==
    (hops > 0 /\ response.status \in {301, 302, 303, 307, 308}
              /\ RuleTarget(response) # None)
        => currentUrl = ResolveUrl(RuleTarget(response), sent.url)

\* a 303 without Location whose body sets redirecturl to /r and
\* window.location to https://x/y: the redirecturl variable decides
C9_Witness ==
    /\ response = Resp(303, None, VarAndLocBody)
    /\ sent.url = StartUrl
    /\ currentUrl = Abs("https://e.com", "/r")

\* C10: the loop stops at the first response whose status is not a redirect
\* status, or is one without Location header and matching body pattern: no
\* further request is issued in the attempt and that response's body is the
\* html extracted and returned.
C10_FinalResponseStopsLoop ==
    (hops > 0 /\ (response.status \notin {301, 302, 303, 307, 308}
                  \/ RuleTarget(response) = None))
        => /\ pc # "loop"
           /\ currentUrl = sent.url
           /\ i = hops - 1
           /\ pc = "returned" => result.html = response.data.id

\* a 200 whose body holds a script redirect is final
C10_Witness ==
    /\ response = Resp(200, None, HrefBody)
    /\ hops = 2
    /\ pc = "returned"
    /\ result.html = "href"

-----------------------------------------------------------------------------
(* Claims about the /qa handler, checked under QaSpec                       *)

Finished == rpc = "done"
FileUploaded == req.file
ParseFailed == err = DocParseError
FetchFailed == rpc \in {"catch", "finally", "done"} /\ pc = "thrown"

ReportGiven(fetched, docReply, emailReply) ==
    formatResultJSON([textComparison |-> textComparison,
                      linkReport |-> linkResult.report,
                      missingDocLinks |-> linkResult.missing,
                      imageAltCheck |-> imageAltCheck,
                      grammarCheck |->
                          GrammarOfBoth(checkGrammar(doc.text, "Document", docReply),
                                        checkGrammar(page.text, "Email", emailReply)),
                      responsive |-> checkResponsive(fetched).responsive,
                      responsiveDetails |-> checkResponsive(fetched).details])

\* checkGrammar sends the text to the service
Asked(text) == text # <<>> /\ Len(Trim(text)) >= 20

\* whatever the auxiliary checks had answered, the report would show the
\* same status and the same text, link and image results
SameCoreResults ==
    \A fetched \in ResponsiveFetches, docReply \in GrammarReplies,
       emailReply \in GrammarReplies :
        LET other == ReportGiven(fetched, docReply, emailReply)
        IN /\ other.overallStatus = report.overallStatus
           /\ other.textSummary = report.textSummary
           /\ other.linkSummary = report.linkSummary
           /\ other.imageSummary = report.imageSummary

ReportIsTheAnswer ==
    /\ rpc \in {"responsive", "grammar", "reported"} => err = NotYet /\ res = NotYet
    /\ report # NotYet => err = NotYet /\ SameCoreResults
    /\ (report # NotYet /\ res # NotYet) => res = Response(200, report)

FailedResponsiveCheckIsLabelled ==
    \A fetched \in ResponsiveFetches :
        (CheckResponsive(fetched) /\ ~ fetched.ok) =>
            /\ responsive'.responsive = "Unable to check"
            /\ rpc' = "responsive"

FailedGrammarCheckIsLabelled ==
    \A docReply \in GrammarReplies, emailReply \in GrammarReplies :
        CheckGrammar(docReply, emailReply) =>
            /\ (~ docReply.ok /\ Asked(doc.text)) =>
                   grammarCheck'.document.summary.status = "SKIPPED"
            /\ (~ emailReply.ok /\ Asked(page.text)) =>
                   grammarCheck'.email.summary.status = "SKIPPED"
            /\ rpc' = "grammar"

\* C12: a failure of the responsiveness check or of either grammar check
\* never makes the request end in an error response and never changes
\* overallStatus: the report is still the answer, with the same text, link
\* and image results, and the failed check shows only as
\* "Unable to check" / "SKIPPED".
C12_AuxiliaryFailureIsContained ==
    /\ [] ReportIsTheAnswer
    /\ [][FailedResponsiveCheckIsLabelled /\ FailedGrammarCheckIsLabelled]_vars

\* all three auxiliary calls failed and the report was sent
C12_Witness ==
    /\ Finished
    /\ res.status = 200
    /\ res.body.responsive = "Unable to check"
    /\ res.body.grammarCheck.document.summary.status = "SKIPPED"
    /\ res.body.grammarCheck.email.summary.status = "SKIPPED"
    /\ res.body.overallStatus = "PASS"

\* C13: a report is yielded only if input validation, document parsing and
\* the page fetch all succeeded, in that order; a failure at any step ends
\* the request with an error response (400 for a missing file or URL,
\* the error payload otherwise) and no later step is executed.
C13_ReportOnlyAfterAllSteps ==
    /\ report # NotYet => (req.file /\ req.emailUrl /\ doc # NotYet /\ page # NotYet)
    /\ page # NotYet => doc # NotYet /\ pc = "returned"
    /\ pc # "idle" => doc # NotYet
    /\ (doc # NotYet \/ err # NotYet) => (req.file /\ req.emailUrl)
    /\ ((~ req.file \/ ~ req.emailUrl) /\ rpc # "validate") =>
           /\ res = Response(400, [error |-> "Missing input"])
           /\ doc = NotYet /\ page = NotYet /\ pc = "idle" /\ NothingCompared
    /\ err # NotYet =>
           /\ page = NotYet /\ NothingCompared
           /\ doc = NotYet <=> ParseFailed
           /\ doc = NotYet => pc = "idle"
           /\ doc # NotYet => pc = "thrown"
           /\ rpc \in {"finally", "done"} =>
                  res = Response(500, [error |-> "QA processing failed",
                                       details |-> err.msg])
    /\ (res # NotYet /\ res.status = 200) => report # NotYet

\* the third attempt of the fetch succeeded and the report was sent
C13_Witness ==
    /\ Finished
    /\ fetchAttempts = 3
    /\ res = Response(200, report)
    /\ report # NotYet

\* C14: when the page fetch fails after the retries are exhausted, the
\* error the /qa caller receives carries the number of attempts made and
\* the last underlying cause.
C14_ErrorCarriesAttemptsAndCause ==
    (Finished /\ FetchFailed /\ fetchAttempts = Retries) =>
        /\ Includes(res.body.details, <<ToString(fetchAttempts)>>)
        /\ Includes(res.body.details, causes[Len(causes)].msg)

-----------------------------------------------------------------------------
(* Claims about normalize, checked under NormalizeSpec                      *)

\* C15: normalize is idempotent: applied to its own output it returns that
\* output, for every text, punctuation between spaces and "<", ">" included.
C15_NormalizeIdempotent == tpc = "normalized" => out.twice = out.once

\* the words of a normalized text
WordSet(str) == {SplitWords(str)[j] : j \in 1..Len(SplitWords(str))}
\* the normalized words of the text that stand outside every aside: what is
\* left when the spans from an opening to the nearest closing bracket go first
WordsOutsideAsides(text) == WordSet(normalize(StripAsides(text)))
HasAside(text) == StripAsides(text) # text

\* C16: normalize removes parenthetical and bracketed asides: a word enclosed
\* by the brackets is not in the output unless it also occurs outside them.
C16_AsidesRemoved ==
    (tpc = "normalized" /\ HasAside(argA))
        => WordSet(out.once) \subseteq WordsOutsideAsides(argA)

-----------------------------------------------------------------------------
(* Claims about getSimilarityScore, checked under ScoreSpec                 *)

One == Frac(1, 1)
Tokenizes(text) == SplitWords(normalize(text)) # <<>>

\* C17 as stated: for every non-empty text A, texts with repeated words
\* included, scoring A against itself gives F1 exactly 1.
C17_SelfScoreIsOne == (tpc = "scored" /\ argA # <<>>) => out.aa.score = One

\* C17, amended: for every text A that tokenizes to at least one word, texts
\* with repeated words included, scoring A against itself gives F1 exactly 1;
\* a text without a word character scores 0 against itself.
C17_SelfScoreIsOneForWords ==
    tpc = "scored" =>
        /\ Tokenizes(argA) => out.aa.score = One /\ out.aa.precision = One
                              /\ out.aa.recall = One
        /\ ~ Tokenizes(argA) => out.aa.score = Frac(0, 1)

\* a text with a repeated word scored against itself
C17_Witness ==
    /\ tpc = "scored"
    /\ argA = <<"x", " ", "x", " ", "y">>
    /\ out.aa.score = One

\* C18: swapping the arguments of the scorer swaps precision and recall, for
\* all A and B that both tokenize to at least one word.
C18_SwapSwapsPrecisionAndRecall ==
    (tpc = "scored" /\ Tokenizes(argA) /\ Tokenizes(argB))
        => /\ out.ba.precision = out.ab.recall
           /\ out.ba.recall = out.ab.precision

-----------------------------------------------------------------------------
(* Claims about the verdicts, checked under ReportSpec                      *)

\* the results filed in the verdict buckets, each with its bucket
Filed ==
    UNION {{[bucket |-> b, r |-> textComparison[b][k]] : k \in 1..Len(textComparison[b])} :
           b \in DOMAIN VerdictOf}

\* C19: the verdict of a block is determined by the F1 of its best segment
\* alone: FULL MATCH iff F1 >= 0.9, PARTIAL MATCH iff 0.7 <= F1 < 0.9,
\* NOT FOUND iff F1 < 0.7; a score on a boundary falls in the higher class.
C19_VerdictByThresholds ==
    rpc # "input" =>
        \A f \in Filed :
            /\ f.r.status = VerdictOf[f.bucket]
            /\ f.bucket = "matched" <=> 10 * f.r.score.n >= 9 * f.r.score.d
            /\ f.bucket = "partialMatch" <=>
                   (10 * f.r.score.n >= 7 * f.r.score.d /\ 10 * f.r.score.n < 9 * f.r.score.d)
            /\ f.bucket = "notFound" <=> 10 * f.r.score.n < 7 * f.r.score.d

\* one block scores exactly 0.9 and is a full match, another exactly 0.7 and
\* is a partial match
C19_Witness ==
    /\ rpc = "text"
    /\ Len(textComparison.matched) = 1
    /\ textComparison.matched[1].originalText = TXT_TEN
    /\ textComparison.matched[1].score = [n |-> 9, d |-> 10]
    /\ Len(textComparison.partialMatch) = 1
    /\ textComparison.partialMatch[1].originalText = TXT_TEN_MORE
    /\ textComparison.partialMatch[1].score = [n |-> 7, d |-> 10]

\* paragraphs j .. j + n - 1 joined by single spaces
RECURSIVE Run(_, _, _)
Run(paras, j, n) ==
    IF n = 1 THEN paras[j] ELSE Run(paras, j, n - 1) \o <<" ">> \o paras[j + n - 1]
\* every single paragraph and every run of 2 or 3 consecutive paragraphs
RunsOf(paras) ==
    {Run(paras, c[1], c[2]) :
        c \in {c \in (1..Len(paras)) \X (1..3) : c[1] + c[2] - 1 <= Len(paras)}}

\* C20: findBestEmailSegment returns a score that is at least the F1 of the
\* block against every single paragraph and against every concatenation of
\* 2 or 3 consecutive paragraphs; for the block "Sign up today for 20% off"
\* and the paragraphs "Sign up today", "for 20% off your order" it returns
\* the concatenation of the two, whose F1 is strictly higher than that of
\* either paragraph alone.
C20_BestSegmentDominates ==
    rpc = "text" =>
        /\ \A f \in Filed : \A c \in RunsOf(page.emailParagraphs) :
               FracGE(f.r.score, getSimilarityScore(f.r.originalText, c).score)
        /\ (doc.text = TXT_SIGNUP /\ page.emailParagraphs = <<PARA_SIGNUP, PARA_OFFER>>) =>
               \A f \in Filed :
                   /\ f.r.emailText = PARA_SIGNUP \o <<" ">> \o PARA_OFFER
                   /\ FracGT(f.r.score, getSimilarityScore(TXT_SIGNUP, PARA_SIGNUP).score)
                   /\ FracGT(f.r.score, getSimilarityScore(TXT_SIGNUP, PARA_OFFER).score)

\* the block of the example, matched to the two paragraphs taken together
C20_Witness ==
    /\ rpc = "text"
    /\ doc.text = TXT_SIGNUP
    /\ page.emailParagraphs = <<PARA_SIGNUP, PARA_OFFER>>
    /\ Len(textComparison.partialMatch) = 1
    /\ textComparison.partialMatch[1].emailText = PARA_SIGNUP \o <<" ">> \o PARA_OFFER
    /\ textComparison.partialMatch[1].score = [n |-> 6, d |-> 7]

-----------------------------------------------------------------------------
(* Claims about the link and image audits, checked under ReportSpec         *)

\* the query of a link of the model without its utm parameters
NonUtmSearch(search) == IF search = "?utm_source=y" THEN "" ELSE search
\* the key the link audit is said to compare: for a parseable URL the URL
\* without its utm parameters, else the text before the first "?"
UtmFreeKey(href) ==
    IF href.valid THEN <<href.origin, href.pathname, NonUtmSearch(href.search)>>
    ELSE <<href.pathname>>
LinksCompared == rpc \notin {"input", "text"}

\* C23: the link audit compares links by exact equality of a key that, for a
\* parseable URL, is the URL with only its utm* query parameters removed: a
\* document link that differs from a page link only in UTM parameters is
\* found, two links that differ in a non-UTM query parameter do not match.
C23_LinksMatchUpToUtmOnly ==
    LinksCompared =>
        \A j \in 1..Len(doc.links) :
            linkResult.report[j].foundInEmail = "YES"
                <=> \E k \in 1..Len(page.links) :
                        UtmFreeKey(page.links[k].href) = UtmFreeKey(doc.links[j].href)

ImagesChecked == rpc \notin {"input", "text", "links"}
TrackingPixel == <<"t", "r", "a", "c", "k", "i", "n", "g", "-", "p", "i", "x", "e", "l", ".", "g", "i", "f">>

\* C24: checkImageAltTags classifies each image by alt presence and
\* decorativeness: no alt attribute gives MISSING, low when the src is
\* decorative and high otherwise; an empty alt gives OK when decorative and
\* EMPTY (medium) otherwise; a non-empty alt that matches a generic pattern
\* gives GENERIC (medium); any other alt gives OK. "tracking-pixel.gif"
\* without alt is MISSING/low and with alt="" is OK.
C24_ImageClassification ==
    ImagesChecked =>
        \A j \in 1..Len(page.images) :
            LET img == page.images[j]
                r == imageAltCheck.results[j]
                decorative == IsDecorative(img.src)
            IN /\ ~ img.alt.has =>
                      r = [status |-> "MISSING",
                           severity |-> IF decorative THEN "low" ELSE "high"]
               /\ (img.alt.has /\ Trim(img.alt.text) = <<>>) =>
                      r = IF decorative THEN [status |-> "OK", severity |-> "none"]
                          ELSE [status |-> "EMPTY", severity |-> "medium"]
               /\ (img.alt.has /\ Trim(img.alt.text) # <<>>) =>
                      r = IF IsGeneric(Trim(img.alt.text))
                          THEN [status |-> "GENERIC", severity |-> "medium"]
                          ELSE [status |-> "OK", severity |-> "none"]
               /\ (img.src = TrackingPixel /\ ~ img.alt.has) =>
                      r = [status |-> "MISSING", severity |-> "low"]
               /\ (img.src = TrackingPixel /\ img.alt = [has |-> TRUE, text |-> <<>>]) =>
                      r.status = "OK"

\* the tracking pixel with alt="" next to an image whose alt is generic
C24_Witness ==
    /\ rpc = "images"
    /\ Len(page.images) = 2
    /\ page.images[1] = Img(TrackingPixel, TRUE, <<>>)
    /\ imageAltCheck.results[1] = [status |-> "OK", severity |-> "none"]
    /\ imageAltCheck.results[2] = [status |-> "GENERIC", severity |-> "medium"]

-----------------------------------------------------------------------------
(* Further claims about getEmailContent                                     *)

\* C28: the resolvedUrl a successful fetch returns is the URL of the request
\* whose response body is returned as html, however the redirect loop ended
\* (non-redirect response, redirect without target, hop limit).
C28_ResolvedUrlIsRequestedUrl ==
    pc = "returned" => (result.html = response.data.id /\ result.resolvedUrl = sent.url)

\* the Cookie header that carries exactly the pairs of these Set-Cookie values
HeaderFor(setCookies) == CookieHeader([j \in 1..Len(setCookies) |-> Head(setCookies[j])])

\* C29, retries (FetchSpec): every attempt starts from the URL originally
\* requested with an empty cookie jar; what a failed attempt collected or
\* reached is not carried into the next one.
C29_AttemptStartsAfresh ==
    /\ (pc = "loop" /\ hops = 0) => (currentUrl = url /\ cookies = <<>> /\ received = <<>>)
    /\ (hops = 1 /\ pc # "sleep") => (sent.url = url /\ ~ sent.cookie.present)
    /\ hops >= 1 => sent.cookie = HeaderFor(sent.seen)

\* a second attempt has sent its first request, to the original URL and
\* without cookies, and was redirected elsewhere
C29_Witness ==
    /\ attempt = 2
    /\ hops = 1
    /\ Len(delays) = 1
    /\ sent.url = StartUrl
    /\ ~ sent.cookie.present
    /\ pc = "loop"
    /\ currentUrl # StartUrl

\* C29, concurrency (ConcSpec): the requests of a call carry the cookies its
\* own servers set in the current attempt and no others, whatever the other
\* call does in between, and each attempt of a call starts from its own URL.
C29_JarsAreNotShared ==
    \A c \in Calls :
        /\ jobs[c].sent # NoRequest =>
               /\ jobs[c].sent.cookie = HeaderFor(jobs[c].sent.seen)
               /\ \A j \in 1..Len(jobs[c].sent.seen) :
                      jobs[c].sent.seen[j] = SetCookieOf(c, 1)[1]
        /\ jobs[c].cookies = [j \in 1..Len(jobs[c].received) |-> Head(jobs[c].received[j])]
        /\ (jobs[c].pc = "loop" /\ jobs[c].i = 0) =>
               (jobs[c].currentUrl = UrlOf(c) /\ jobs[c].cookies = <<>>)

\* both calls hold a cookie of their own and call 2 has sent it
C29_ConcWitness ==
    /\ jobs[1].cookies = <<"a=1">>
    /\ jobs[2].sent.cookie.present
    /\ jobs[2].sent.cookie.value = <<"b=2">>
    /\ jobs[2].attempt = 2

-----------------------------------------------------------------------------
(* Further claims about the scorer, checked under ScoreSpec                 *)

InUnitInterval(f) == FracGE(f, Frac(0, 1)) /\ FracGE(One, f)

\* C27: precision, recall and F1 returned by getSimilarityScore lie in [0, 1]
\* for all texts A and B, also when A repeats a word that B holds fewer times.
C27_ScoresWithinUnitInterval ==
    tpc = "scored" =>
        /\ InUnitInterval(out.ab.precision)
        /\ InUnitInterval(out.ab.recall)
        /\ InUnitInterval(out.ab.score)

-----------------------------------------------------------------------------
(* Claims about findBestEmailSegment, checked under SegmentSpec             *)

\* some word of the block is a word of the text
SharesWord(block, text) == getSimilarityScore(block, text).matchedWords # <<>>

\* C21: the contextual-window fallback over the flat text is attempted only
\* when the best paragraph-based F1 is below 0.3 and at least one word of the
\* block matched; when the best paragraph-based F1 is 0.3 or higher, the
\* flat text has no influence on the returned segment or score.
C21_FallbackOnlyBelowThreeTenths ==
    tpc = "found" =>
        /\ out.window # NoWindow =>
               /\ FracLT(out.strategy1.score, Frac(3, 10))
               /\ SharesWord(argA, argB.emailText)
        /\ FracGE(out.strategy1.score, Frac(3, 10)) => out.best = out.strategy1

NoWordOccurs ==
    /\ \A j \in 1..Len(argB.emailParagraphs) : ~ SharesWord(argA, argB.emailParagraphs[j])
    /\ ~ SharesWord(argA, argB.emailText)

\* C22: for a block none of whose words occurs in any paragraph or in the
\* flat text, findBestEmailSegment returns the empty segment with score 0,
\* and the block is classified NOT FOUND.
C22_NoSharedWordNotFound ==
    (tpc = "found" /\ NoWordOccurs)
        => /\ out.best = NoSegment
           /\ out.status = "NOT FOUND"

\* a block scored against two paragraphs and a flat text that share no word
\* with it
C22_Witness ==
    /\ tpc = "found"
    /\ argA = BLK_UNKNOWN
    /\ argB = [emailParagraphs |-> <<SEG_SEASON, SEG_RETURNS>>,
               emailText |-> SEG_SEASON \o <<" ">> \o SEG_RETURNS]
    /\ out.best.segment = <<>>
    /\ out.best.score = Frac(0, 1)
    /\ out.status = "NOT FOUND"

\* the alignment candidates with their place in the stated priority order:
\* single paragraphs in page order, then for each start index the
\* 2-paragraph combination followed by the 3-paragraph one
Ranked(paras) ==
    {[rank |-> j, text |-> paras[j]] : j \in 1..Len(paras)}
        \cup {[rank |-> Len(paras) + 2 * j - 1, text |-> Run(paras, j, 2)] :
                 j \in 1..(Len(paras) - 1)}
        \cup {[rank |-> Len(paras) + 2 * j, text |-> Run(paras, j, 3)] :
                 j \in 1..(Len(paras) - 2)}
F1Of(c) == getSimilarityScore(argA, c.text).score
TopRanked(paras) == {c \in Ranked(paras) : \A o \in Ranked(paras) : FracGE(F1Of(c), F1Of(o))}

\* C26: among alignment candidates of equal F1 the one evaluated first is
\* kept: single paragraphs in page order before any combination, then
\* combinations by increasing start index, the 2-paragraph one before the
\* 3-paragraph one; a later candidate, the context window included,
\* replaces the best only when its F1 is strictly greater.
C26_FirstOfEqualCandidatesWins ==
    tpc = "found" =>
        /\ IF \A c \in Ranked(argB.emailParagraphs) : F1Of(c) = Frac(0, 1)
           THEN out.strategy1 = NoSegment
           ELSE \E c \in TopRanked(argB.emailParagraphs) :
                    /\ \A o \in TopRanked(argB.emailParagraphs) : c.rank <= o.rank
                    /\ out.strategy1.segment = c.text
                    /\ out.strategy1.score = F1Of(c)
        /\ out.best # out.strategy1 => FracGT(out.best.score, out.strategy1.score)

\* the third paragraph and the combination of the first two both score 1;
\* the single paragraph, scored first, is returned
C26_Witness ==
    /\ tpc = "found"
    /\ argA = BLK_WELCOME
    /\ argB.emailParagraphs = <<SEG_ABOARD, SEG_VALUED, SEG_REVERSED>>
    /\ getSimilarityScore(argA, Run(argB.emailParagraphs, 1, 2)).score = One
    /\ out.best.segment = SEG_REVERSED
    /\ out.best.score = One

\* C30: whenever the flat-text fallback locates a block word at index idx of
\* the flat text, the context it extracts and scores is the (trimmed)
\* substring [start, end) of the flat text and that range contains idx, also
\* when no space follows position idx + block length + 20.
C30_WindowContainsIdx ==
    (tpc = "found" /\ out.window # NoWindow)
        => /\ out.window.start <= out.window.idx
           /\ out.window.idx < out.window.end
           /\ out.window.end <= Len(argB.emailText)
           /\ out.window.context
                  = Trim(SubSeq(argB.emailText, out.window.start + 1, out.window.end))

-----------------------------------------------------------------------------
(* Claim about the paragraph deduplication, checked under DedupSpec         *)

\* the place in the page where content of a retained paragraph first occurs
FirstEncountered(kept) ==
    CHOOSE j \in 1..Len(argA) :
        /\ StrIncludes(kept, argA[j])
        /\ \A o \in 1..(j - 1) : ~ StrIncludes(kept, argA[o])

\* C25: after the deduplication, whatever the sequence of extracted
\* paragraphs, no retained paragraph equals or is a substring of another
\* retained paragraph, and the retained paragraphs are in the order in which
\* their content was first encountered in the page.
C25_RetainedParagraphsDisjointAndOrdered ==
    tpc = "deduplicated" =>
        /\ \A j, k \in 1..Len(out) : j # k => ~ StrIncludes(out[k], out[j])
        /\ \A j, k \in 1..Len(out) :
               j < k => FirstEncountered(out[j]) < FirstEncountered(out[k])

====
